---- MODULE Spec2Model ----
(***************************************************************************)
(* HandControl: gesture recognition (gesture_recognition.py) and keyboard  *)
(* shortcut mode (keyboard_mode.py).                                       *)
(*                                                                         *)
(* Time is counted in milliseconds; a landmark coordinate is an integer    *)
(* number of two-hundredths of the frame.  Comparisons of a distance with a   *)
(* fraction of the hand size are made on the squares, which is exact.      *)
(* An optional value (Python None or a value) is a sequence of length 0    *)
(* or 1.                                                                   *)
(***************************************************************************)
EXTENDS Integers, Sequences, FiniteSets, TLC

VARIABLES
    now,                  \* the clock read by time.time()
    \* GestureRecognizer
    gesture_history,      \* deque(maxlen = stability_frames) of GestureState
    stable_gesture,       \* Optional[GestureState]
    last_click_time,
    last_scroll_time,
    keyboard_mode_start,  \* Optional[float]
    in_keyboard_mode,
    gr_call,              \* the last call made on the recognizer and its result
    gr_obs,               \* what the recognizer's caller has observed so far
    cl_obs,               \* what the recognizer's caller has observed of the
                          \* frames classified so far
    \* KeyboardMode
    is_active,
    activation_start_time, \* Optional[float]
    kb_call,              \* the last call made on the keyboard mode, its result
                          \* and the feedback notifications it sent
    kb_obs,               \* what the keyboard mode's caller has observed so far
    \* ScreenCalibrator
    calibrator,           \* the fields of the ScreenCalibrator in use
    calibration_file,     \* Optional: what the calibration file holds
    cal_call,             \* the last call made on the calibrator and its result
    cal_obs,              \* what the calibrator's caller has observed so far
    \* PointSmoother
    smoother,             \* the fields of the PointSmoother in use
    fresh_smoother,       \* a PointSmoother with the same parameters, constructed
                          \* when the one in use was constructed or last reset,
                          \* and given the same calls since
    other_smoother,       \* a PointSmoother with the same parameters, given the
                          \* same calls with the same x and other y
    sm_call,              \* the last call made on the smoothers and its results
    \* Camera
    camera,               \* the fields of the Camera in use
    captures,             \* the cv2.VideoCapture objects that open() has made
    device_frame,         \* the number of the frame the device delivers next
    cam_call,             \* the last call made on the camera and its result
    cam_obs,              \* what the camera's caller has observed so far
    \* HandControlApp, its CursorController and pyautogui
    app,                  \* the fields of the HandControlApp, and how far its
                          \* construction and run() have come
    cursor,               \* is_dragging of the CursorController, and whether
                          \* the pointer button is held down
    pointer_in_corner,    \* the pointer is in a corner of the screen
    failsafe,             \* pyautogui.FAILSAFE
    app_call,             \* the last call made on the application and its
                          \* outcome
    app_obs,              \* what the application's user has observed so far
    \* Config
    config_heap,          \* the nested dictionaries that configurations refer
                          \* to, those of Config.DEFAULT_CONFIG first
    configs,              \* the Config instances constructed: self.config of
                          \* each, a dictionary of references into config_heap
    cfg_call              \* the last call made on a Config, and the values of
                          \* every instance before it

gr_vars == <<gesture_history, stable_gesture, last_click_time, last_scroll_time,
             keyboard_mode_start, in_keyboard_mode, gr_call, gr_obs, cl_obs>>
kb_vars == <<is_active, activation_start_time, kb_call, kb_obs>>
cal_vars == <<calibrator, calibration_file, cal_call, cal_obs>>
sm_vars == <<smoother, fresh_smoother, other_smoother, sm_call>>
cam_vars == <<camera, captures, device_frame, cam_call, cam_obs>>
app_vars == <<app, cursor, pointer_in_corner, failsafe, app_call, app_obs>>
cfg_vars == <<config_heap, configs, cfg_call>>
rest_vars == <<sm_vars, cam_vars, app_vars, cfg_vars>>
vars == <<now, gr_vars, kb_vars, cal_vars, rest_vars>>

None == <<>>
Some(v) == <<v>>

-----------------------------------------------------------------------------
(* Parameters of the constructors (their default values).                  *)

\* finger_threshold = 0.15 and pinch_threshold = 0.08, in hundredths
FingerThresholdPct == 15
PinchThresholdPct == 8
StabilityFrames == 3
CooldownClickMs == 300
CooldownScrollMs == 50
\* keyboard_hold_time = 1.0 s
KeyboardHoldMs == 1000
\* KeyboardMode hold_time = 1.0 s
HoldTimeMs == 1000

(* Bounds of the model.                                                    *)

\* the clock at construction: time.time() is seconds since 1970, far more
\* than any cooldown away from the initial timers 0.0
StartTime == 1000
\* how far the clock runs in a pointing session and in a clicking session
Horizon == 1000
ClickHorizon == 600
\* the steps by which the clock advances between two calls
HoldDeltas == {500}
ClickDeltas == {100, 300}

-----------------------------------------------------------------------------
(* Hand skeletons: 21 landmarks, each <<x, y>>.                            *)

WRIST == 0
THUMB_IP == 3
THUMB_TIP == 4
INDEX_PIP == 6
INDEX_TIP == 8
MIDDLE_MCP == 9
MIDDLE_PIP == 10
MIDDLE_TIP == 12
RING_PIP == 14
RING_TIP == 16
PINKY_PIP == 18
PINKY_TIP == 20

X(p) == p[1]
Y(p) == p[2]

\* a neutral hand, all fingers curled, of hand size 100 (wrist to middle MCP)
BaseHand ==
    [i \in 0..20 |->
        CASE i = 0  -> <<100, 200>>
          [] i = 3  -> <<30, 90>>
          [] i = 4  -> <<40, 85>>
          [] i = 5  -> <<125, 100>>
          [] i = 6  -> <<130, 60>>
          [] i = 8  -> <<125, 100>>
          [] i = 9  -> <<100, 100>>
          [] i = 10 -> <<105, 60>>
          [] i = 12 -> <<105, 100>>
          [] i = 13 -> <<80, 100>>
          [] i = 14 -> <<80, 60>>
          [] i = 16 -> <<80, 100>>
          [] i = 17 -> <<60, 100>>
          [] i = 18 -> <<60, 60>>
          [] i = 20 -> <<60, 100>>
          [] OTHER  -> <<100, 200>>]

\* positions the five fingertips are drawn from: curled, extended, pinched
\* to a neighbour, and exactly on a threshold
ThumbTips  ==
    {<<40, 85>>, <<5, 70>>, <<140, 25>>, <<40, 26>>, <<120, 100>>, <<112, 25>>}
IndexTips  == {<<125, 100>>, <<140, 20>>, <<110, 20>>, <<40, 20>>}
MiddleTips == {<<105, 100>>, <<105, 20>>, <<118, 20>>}
RingTips   == {<<80, 100>>, <<80, 20>>}
PinkyTips  == {<<60, 100>>, <<60, 20>>}

MakeHand(t, i, m, r, p) ==
    [k \in 0..20 |->
        CASE k = THUMB_TIP  -> t
          [] k = INDEX_TIP  -> i
          [] k = MIDDLE_TIP -> m
          [] k = RING_TIP   -> r
          [] k = PINKY_TIP  -> p
          [] OTHER          -> BaseHand[k]]

Hands ==
    {MakeHand(t, i, m, r, p) :
        t \in ThumbTips, i \in IndexTips, m \in MiddleTips,
        r \in RingTips, p \in PinkyTips}

\* the same hand nearer to the camera: every landmark scaled by k
Scales == {2, 3}
ScaleHand(landmarks, k) ==
    [i \in 0..20 |-> <<k * X(landmarks[i]), k * Y(landmarks[i])>>]

-----------------------------------------------------------------------------
(* GestureState and the geometric tests.                                   *)

\* confidence is kept in hundredths; the creation timestamp of a
\* GestureState is read by no code of the recognizer and is left out
GestureState(gesture_type, confidence, data) ==
    [gesture_type |-> gesture_type, confidence |-> confidence, data |-> data]

EmptyDict == <<>>

Get(dict, key, default) == IF key \in DOMAIN dict THEN dict[key] ELSE default

Abs(n) == IF n < 0 THEN 0 - n ELSE n

\* the square of HandLandmarks.get_hand_size()
HandSizeSq(landmarks) ==
    LET dx == X(landmarks[MIDDLE_MCP]) - X(landmarks[WRIST])
        dy == Y(landmarks[MIDDLE_MCP]) - Y(landmarks[WRIST])
    IN  dx * dx + dy * dy

\* the square of _euclidean_distance(p1, p2)
EuclideanDistanceSq(p1, p2) ==
    LET dx == X(p2) - X(p1)
        dy == Y(p2) - Y(p1)
    IN  dx * dx + dy * dy

\* FingerIsExtended with finger_threshold taken as a distance in the frame,
\* whatever the hand size
FingerIsExtendedAbsolute(landmarks, tip_idx, pip_idx, hand_size_sq) ==
    LET tip == landmarks[tip_idx]
        pip == landmarks[pip_idx]
        distance == IF tip_idx # 4 THEN Y(pip) - Y(tip)
                                   ELSE Abs(X(tip) - X(pip))
    IN  distance > FingerThresholdPct

\* distance > finger_threshold * hand_size, for one finger
FingerIsExtended(landmarks, tip_idx, pip_idx, hand_size_sq) ==
    LET tip == landmarks[tip_idx]
        pip == landmarks[pip_idx]
        distance == IF tip_idx # 4 THEN Y(pip) - Y(tip)
                                   ELSE Abs(X(tip) - X(pip))
    IN  /\ distance > 0
        /\ (100 * distance) * (100 * distance)
              > FingerThresholdPct * FingerThresholdPct * hand_size_sq

\* DetectPinch with the threshold itself counted as pinched
DetectPinchInclusive(landmarks, point1_idx, point2_idx, hand_size_sq) ==
    10000 * EuclideanDistanceSq(landmarks[point1_idx], landmarks[point2_idx])
        <= PinchThresholdPct * PinchThresholdPct * hand_size_sq

\* distance < pinch_threshold * hand_size
DetectPinch(landmarks, point1_idx, point2_idx, hand_size_sq) ==
    10000 * EuclideanDistanceSq(landmarks[point1_idx], landmarks[point2_idx])
        < PinchThresholdPct * PinchThresholdPct * hand_size_sq

FingerTips == <<THUMB_TIP, INDEX_TIP, MIDDLE_TIP, RING_TIP, PINKY_TIP>>
FingerPips == <<THUMB_IP, INDEX_PIP, MIDDLE_PIP, RING_PIP, PINKY_PIP>>

FingersExtended(landmarks) ==
    [f \in 1..5 |->
        FingerIsExtended(landmarks, FingerTips[f], FingerPips[f],
                         HandSizeSq(landmarks))]

\* MoveGesture with the position taken from the index PIP joint
MoveGestureFromPip(landmarks) ==
    GestureState("MOVE", 100,
        [cursor_pos |-> <<X(landmarks[INDEX_PIP]), Y(landmarks[INDEX_PIP])>>,
         hand_size_sq |-> HandSizeSq(landmarks)])

\* the MOVE candidate: cursor_pos is the index tip
MoveGesture(landmarks) ==
    GestureState("MOVE", 100,
        [cursor_pos |-> <<X(landmarks[INDEX_TIP]), Y(landmarks[INDEX_TIP])>>,
         hand_size_sq |-> HandSizeSq(landmarks)])

\* the SCROLL candidate: scroll_y is the mean of the two tips' y, kept doubled
ScrollGesture(landmarks) ==
    GestureState("SCROLL", 100,
        [scroll_y_x2 |-> Y(landmarks[INDEX_TIP]) + Y(landmarks[MIDDLE_TIP]),
         hand_size_sq |-> HandSizeSq(landmarks)])

\* ClassifyPose with the thumb-index pinch tested after SCROLL and DRAG
ClassifyPoseDoubleClickLast(landmarks, hs, ext) ==
    LET thumb_ext == ext[1]
        index_ext == ext[2]
        middle_ext == ext[3]
        ring_ext == ext[4]
        pinky_ext == ext[5]
        plain(type) == GestureState(type, 100, [hand_size_sq |-> hs])
    IN  IF index_ext /\ ~middle_ext /\ ~ring_ext /\ ~pinky_ext /\ ~thumb_ext
        THEN MoveGesture(landmarks)
        ELSE IF /\ index_ext /\ middle_ext /\ ~ring_ext /\ ~pinky_ext
                /\ DetectPinch(landmarks, 8, 12, hs)
        THEN plain("LEFT_CLICK")
        ELSE IF /\ index_ext /\ middle_ext /\ ring_ext /\ ~pinky_ext
                /\ DetectPinch(landmarks, 8, 12, hs)
        THEN plain("RIGHT_CLICK")
        ELSE IF /\ index_ext /\ middle_ext /\ ~ring_ext /\ ~pinky_ext
                /\ ~DetectPinch(landmarks, 8, 12, hs)
        THEN ScrollGesture(landmarks)
        ELSE IF thumb_ext /\ ~index_ext /\ ~middle_ext /\ ~ring_ext /\ ~pinky_ext
        THEN plain("DRAG")
        ELSE IF DetectPinch(landmarks, 4, 8, hs)
        THEN plain("DOUBLE_CLICK")
        ELSE GestureState("IDLE", 0,
                 [extended_fingers |-> Cardinality({f \in 1..5 : ext[f]})])

\* _recognize_gesture below the keyboard test, for the hand size hs and the
\* list ext of the fingers extended: first match wins
ClassifyPose(landmarks, hs, ext) ==
    LET thumb_ext == ext[1]
        index_ext == ext[2]
        middle_ext == ext[3]
        ring_ext == ext[4]
        pinky_ext == ext[5]
        plain(type) == GestureState(type, 100, [hand_size_sq |-> hs])
    IN  IF index_ext /\ ~middle_ext /\ ~ring_ext /\ ~pinky_ext /\ ~thumb_ext
        THEN MoveGesture(landmarks)
        ELSE IF /\ index_ext /\ middle_ext /\ ~ring_ext /\ ~pinky_ext
                /\ DetectPinch(landmarks, 8, 12, hs)
        THEN plain("LEFT_CLICK")
        ELSE IF /\ index_ext /\ middle_ext /\ ring_ext /\ ~pinky_ext
                /\ DetectPinch(landmarks, 8, 12, hs)
        THEN plain("RIGHT_CLICK")
        ELSE IF DetectPinch(landmarks, 4, 8, hs)
        THEN plain("DOUBLE_CLICK")
        ELSE IF /\ index_ext /\ middle_ext /\ ~ring_ext /\ ~pinky_ext
                /\ ~DetectPinch(landmarks, 8, 12, hs)
        THEN ScrollGesture(landmarks)
        ELSE IF thumb_ext /\ ~index_ext /\ ~middle_ext /\ ~ring_ext /\ ~pinky_ext
        THEN plain("DRAG")
        ELSE GestureState("IDLE", 0,
                 [extended_fingers |-> Cardinality({f \in 1..5 : ext[f]})])

RecognizePose(landmarks) ==
    ClassifyPose(landmarks, HandSizeSq(landmarks), FingersExtended(landmarks))

\* RecognizeGesture leaving the hold timer running on a frame with not all
\* five fingers extended
RecognizeGestureKeepsTimer(landmarks, kms, t) ==
    IF FingersExtended(landmarks) = [f \in 1..5 |-> TRUE]
    THEN IF kms = None
         THEN [gesture |-> GestureState("IDLE", 50, [building_keyboard |-> TRUE]),
               keyboard_mode_start |-> Some(t)]
         ELSE IF t - kms[1] >= KeyboardHoldMs
         THEN [gesture |-> GestureState("KEYBOARD", 100,
                               [hand_size_sq |-> HandSizeSq(landmarks)]),
               keyboard_mode_start |-> kms]
         ELSE [gesture |-> GestureState("IDLE", 50, [building_keyboard |-> TRUE]),
               keyboard_mode_start |-> kms]
    ELSE [gesture |-> RecognizePose(landmarks), keyboard_mode_start |-> kms]

\* _recognize_gesture: the candidate and the new keyboard_mode_start, for the
\* clock value t read inside it
RecognizeGesture(landmarks, kms, t) ==
    IF FingersExtended(landmarks) = [f \in 1..5 |-> TRUE]
    THEN IF kms = None
         THEN [gesture |-> GestureState("IDLE", 50, [building_keyboard |-> TRUE]),
               keyboard_mode_start |-> Some(t)]
         ELSE IF t - kms[1] >= KeyboardHoldMs
         THEN [gesture |-> GestureState("KEYBOARD", 100,
                               [hand_size_sq |-> HandSizeSq(landmarks)]),
               keyboard_mode_start |-> kms]
         ELSE [gesture |-> GestureState("IDLE", 50, [building_keyboard |-> TRUE]),
               keyboard_mode_start |-> kms]
    ELSE [gesture |-> RecognizePose(landmarks), keyboard_mode_start |-> None]

-----------------------------------------------------------------------------
(* GestureRecognizer.process_landmarks and reset.                          *)

ClickTypes == {"LEFT_CLICK", "RIGHT_CLICK", "DOUBLE_CLICK"}

\* gesture_history.append on a deque(maxlen = stability_frames)
DequeAppend(history, gesture) ==
    IF Len(history) < StabilityFrames
    THEN Append(history, gesture)
    ELSE Append(Tail(history), gesture)

\* len(set(gesture_types)) == 1
AllSameType(history) ==
    Cardinality({history[k].gesture_type : k \in 1..Len(history)}) = 1

\* ClickInCooldown with the boundary included in the cooldown
ClickInCooldownInclusive(current_time, last_click) ==
    current_time - last_click <= CooldownClickMs

\* current_time - self.last_click_time < cooldown_click_ms / 1000.0
ClickInCooldown(current_time, last_click) ==
    current_time - last_click < CooldownClickMs

\* current_time - self.last_scroll_time < cooldown_scroll_ms / 1000.0
ScrollInCooldown(current_time, last_scroll) ==
    current_time - last_scroll < CooldownScrollMs

\* NotEnoughHistory with the window taken one frame short
NotEnoughHistoryOffByOne(history) == Len(history) < StabilityFrames - 1

\* len(self.gesture_history) < self.stability_frames
NotEnoughHistory(history) == Len(history) < StabilityFrames

\* process_landmarks after the append: the value returned and the new
\* stable_gesture and cooldown timers
Debounce(history, current_gesture, current_time, stable, last_click, last_scroll) ==
    LET unchanged(ret) ==
            [ret |-> ret, stable_gesture |-> stable,
             last_click_time |-> last_click, last_scroll_time |-> last_scroll]
        stable_type == history[1].gesture_type
    IN  IF NotEnoughHistory(history) THEN unchanged(None)
        ELSE IF ~AllSameType(history) THEN unchanged(None)
        ELSE IF stable_type \in ClickTypes /\ ClickInCooldown(current_time, last_click)
        THEN unchanged(None)
        ELSE IF stable_type = "SCROLL" /\ ScrollInCooldown(current_time, last_scroll)
        THEN unchanged(None)
        ELSE [ret |-> Some(current_gesture),
              stable_gesture |-> Some(current_gesture),
              last_click_time |->
                  IF stable_type \in ClickTypes THEN current_time ELSE last_click,
              last_scroll_time |->
                  IF stable_type \notin ClickTypes /\ stable_type = "SCROLL"
                  THEN current_time ELSE last_scroll]

\* process_landmarks(None): what it returns
NoHandGesture == GestureState("IDLE", 0, EmptyDict)

\* NoHandState with the keyboard hold timer left running
NoHandStateKeepsTimer(history, stable, kms) ==
    [gesture_history |-> <<>>, stable_gesture |-> None,
     keyboard_mode_start |-> kms]

\* what process_landmarks(None) leaves in gesture_history, stable_gesture and
\* keyboard_mode_start
NoHandState(history, stable, kms) ==
    [gesture_history |-> <<>>, stable_gesture |-> None,
     keyboard_mode_start |-> None]

(* The caller's observations: the length of the run of identical candidate *)
(* types since construction, reset() or the last frame without a hand      *)
(* (counted up to one more than the stability window), and the time of the *)
(* last click-family command returned, before and after the last call.     *)

ObsInit ==
    [streak |-> 0, streak_type |-> "", click_emit |-> None,
     prev_click_emit |-> None]

ObsFrame(obs, type, ret, t) ==
    [streak |-> IF obs.streak > 0 /\ obs.streak_type = type
                THEN IF obs.streak > StabilityFrames THEN obs.streak
                     ELSE obs.streak + 1
                ELSE 1,
     streak_type |-> type,
     click_emit |-> IF ret # None /\ ret[1].gesture_type \in ClickTypes
                    THEN Some(t) ELSE obs.click_emit,
     prev_click_emit |-> obs.click_emit]

ObsCleared(obs) ==
    [streak |-> 0, streak_type |-> "", click_emit |-> obs.click_emit,
     prev_click_emit |-> obs.click_emit]

(* The caller's observations of the frames classified: the time of the     *)
(* first frame of the present uninterrupted run of frames with all five    *)
(* fingers extended, before and after the last call; and of the frame      *)
(* classified before the last one, whether all five fingers were extended  *)
(* and the doubled height of the fingertip midpoint if it was a SCROLL;     *)
(* and whether any frame before the last one had all five fingers          *)
(* extended.  A frame without a hand or reset() ends the observations.     *)

ClsObsInit ==
    [hold_start |-> None, prev_hold_start |-> None,
     last_open |-> FALSE, prev_open |-> FALSE,
     last_scroll |-> None, prev_scroll |-> None,
     seen_open |-> FALSE]

ClsObsFrame(obs, landmarks, gesture, t) ==
    LET open == FingersExtended(landmarks) = [f \in 1..5 |-> TRUE]
    IN  [hold_start |-> IF open
                        THEN IF obs.hold_start = None THEN Some(t)
                             ELSE obs.hold_start
                        ELSE None,
         prev_hold_start |-> obs.hold_start,
         last_open |-> open,
         prev_open |-> obs.last_open,
         last_scroll |-> IF gesture.gesture_type = "SCROLL"
                         THEN Some(Y(landmarks[INDEX_TIP]) + Y(landmarks[MIDDLE_TIP]))
                         ELSE None,
         prev_scroll |-> obs.last_scroll,
         seen_open |-> obs.seen_open \/ obs.last_open]

GrCall(op, landmarks, candidate, ret, t) ==
    [op |-> op, landmarks |-> landmarks, candidate |-> candidate, ret |-> ret,
     time |-> t,
     pre_history_len |-> Len(gesture_history),
     pre_keyboard_mode_start |-> keyboard_mode_start,
     pre_last_click_time |-> last_click_time,
     pre_last_scroll_time |-> last_scroll_time]

\* the hands shown to process_landmarks, one per gesture
MoveHand ==
    MakeHand(<<40, 85>>, <<140, 20>>, <<105, 100>>, <<80, 100>>, <<60, 100>>)
PinchHand ==
    MakeHand(<<40, 85>>, <<110, 20>>, <<105, 20>>, <<80, 100>>, <<60, 100>>)
RightClickHand ==
    MakeHand(<<40, 85>>, <<110, 20>>, <<105, 20>>, <<80, 20>>, <<60, 100>>)
DoubleClickHand ==
    MakeHand(<<140, 25>>, <<140, 20>>, <<105, 100>>, <<80, 100>>, <<60, 100>>)
ScrollHand ==
    MakeHand(<<40, 85>>, <<140, 20>>, <<105, 20>>, <<80, 100>>, <<60, 100>>)
DragHand ==
    MakeHand(<<5, 70>>, <<125, 100>>, <<105, 100>>, <<80, 100>>, <<60, 100>>)
AllFingersHand ==
    MakeHand(<<5, 70>>, <<140, 20>>, <<105, 20>>, <<80, 20>>, <<60, 20>>)
FistHand ==
    MakeHand(<<40, 85>>, <<125, 100>>, <<105, 100>>, <<80, 100>>, <<60, 100>>)
\* the scroll hand with both fingertips higher in the frame
ScrollHandRaised ==
    MakeHand(<<40, 85>>, <<140, 10>>, <<105, 10>>, <<80, 100>>, <<60, 100>>)

\* frames of a pointing session, and frames of a clicking session
PointingHands == {MoveHand, PinchHand, ScrollHand, DragHand, AllFingersHand}
ClickingHands == {MoveHand, PinchHand, RightClickHand, DoubleClickHand}

\* time.time(): the clock advances by d between two calls; the reads of the
\* clock made within one call return the same millisecond
Tick(d, horizon) ==
    /\ now + d <= StartTime + horizon
    /\ now' = now + d
    /\ UNCHANGED <<gr_vars, kb_vars, cal_vars, rest_vars>>

\* process_landmarks(landmarks) with a hand
ProcessLandmarks(landmarks) ==
    /\ \E current_time \in {now} :
       \E rec \in {RecognizeGesture(landmarks, keyboard_mode_start, now)} :
       \E history \in {DequeAppend(gesture_history, rec.gesture)} :
       \E d \in {Debounce(history, rec.gesture, current_time, stable_gesture,
                          last_click_time, last_scroll_time)} :
           /\ gesture_history' = history
           /\ keyboard_mode_start' = rec.keyboard_mode_start
           /\ stable_gesture' = d.stable_gesture
           /\ last_click_time' = d.last_click_time
           /\ last_scroll_time' = d.last_scroll_time
           /\ gr_call' = GrCall("process_landmarks", Some(landmarks),
                                Some(rec.gesture), d.ret, current_time)
           /\ gr_obs' = ObsFrame(gr_obs, rec.gesture.gesture_type, d.ret,
                                 current_time)
           /\ cl_obs' = ClsObsFrame(cl_obs, landmarks, rec.gesture, current_time)
    /\ UNCHANGED <<now, in_keyboard_mode, kb_vars, cal_vars, rest_vars>>

\* process_landmarks(None)
ProcessNoHand ==
    /\ \E st \in {NoHandState(gesture_history, stable_gesture,
                                keyboard_mode_start)} :
           /\ gesture_history' = st.gesture_history
           /\ stable_gesture' = st.stable_gesture
           /\ keyboard_mode_start' = st.keyboard_mode_start
    /\ gr_call' = GrCall("process_landmarks", None, None, Some(NoHandGesture), now)
    /\ gr_obs' = ObsCleared(gr_obs)
    /\ cl_obs' = ClsObsInit
    /\ UNCHANGED <<now, last_click_time, last_scroll_time, in_keyboard_mode,
                   kb_vars, cal_vars, rest_vars>>

\* the state GestureRecognizer.__init__ leaves
NewGestureRecognizer ==
    [gesture_history |-> <<>>, stable_gesture |-> None,
     last_click_time |-> 0, last_scroll_time |-> 0,
     keyboard_mode_start |-> None, in_keyboard_mode |-> FALSE]

\* the state of the recognizer in use
RecognizerState ==
    [gesture_history |-> gesture_history, stable_gesture |-> stable_gesture,
     last_click_time |-> last_click_time,
     last_scroll_time |-> last_scroll_time,
     keyboard_mode_start |-> keyboard_mode_start,
     in_keyboard_mode |-> in_keyboard_mode]

\* what process_landmarks(landmarks) returns and leaves on the recognizer r
\* at time t
ProcessLandmarksOn(r, landmarks, t) ==
    LET rec == RecognizeGesture(landmarks, r.keyboard_mode_start, t)
        history == DequeAppend(r.gesture_history, rec.gesture)
        d == Debounce(history, rec.gesture, t, r.stable_gesture,
                      r.last_click_time, r.last_scroll_time)
    IN  [ret |-> d.ret,
         state |-> [gesture_history |-> history,
                    stable_gesture |-> d.stable_gesture,
                    last_click_time |-> d.last_click_time,
                    last_scroll_time |-> d.last_scroll_time,
                    keyboard_mode_start |-> rec.keyboard_mode_start,
                    in_keyboard_mode |-> r.in_keyboard_mode]]

\* reset() leaving the click cooldown timer
ResetKeepsClickTimer ==
    /\ gesture_history' = <<>>
    /\ stable_gesture' = None
    /\ last_scroll_time' = 0
    /\ keyboard_mode_start' = None
    /\ in_keyboard_mode' = FALSE
    /\ gr_call' = GrCall("reset", None, None, None, now)
    /\ gr_obs' = ObsInit
    /\ cl_obs' = ClsObsInit
    /\ UNCHANGED <<now, last_click_time, kb_vars, cal_vars, rest_vars>>

\* reset()
Reset ==
    /\ gesture_history' = <<>>
    /\ stable_gesture' = None
    /\ last_click_time' = 0
    /\ last_scroll_time' = 0
    /\ keyboard_mode_start' = None
    /\ in_keyboard_mode' = FALSE
    /\ gr_call' = GrCall("reset", None, None, None, now)
    /\ gr_obs' = ObsInit
    /\ cl_obs' = ClsObsInit
    /\ UNCHANGED <<now, kb_vars, cal_vars, rest_vars>>

\* _recognize_gesture(landmarks) called on its own
Recognize(landmarks) ==
    /\ \E rec \in {RecognizeGesture(landmarks, keyboard_mode_start, now)} :
           /\ keyboard_mode_start' = rec.keyboard_mode_start
           /\ gr_call' = GrCall("_recognize_gesture", Some(landmarks),
                                Some(rec.gesture), Some(rec.gesture), now)
           /\ cl_obs' = ClsObsFrame(cl_obs, landmarks, rec.gesture, now)
    /\ UNCHANGED <<now, gesture_history, stable_gesture, last_click_time,
                   last_scroll_time, in_keyboard_mode, gr_obs, kb_vars,
                   cal_vars, rest_vars>>

-----------------------------------------------------------------------------
(* KeyboardMode.                                                           *)

\* the finger_data dictionaries passed to update
FingerData ==
    {[finger_count |-> n, thumb_extended |-> b] : n \in 0..5, b \in BOOLEAN}
        \cup {EmptyDict}

\* _detect_shortcut
DetectShortcut(finger_data) ==
    LET finger_count == Get(finger_data, "finger_count", 0)
        thumb_extended == Get(finger_data, "thumb_extended", FALSE)
    IN  IF finger_count = 1 THEN Some("ESCAPE")
        ELSE IF finger_count = 2 THEN Some("ENTER")
        ELSE IF finger_count = 3 THEN Some("COPY")
        ELSE IF finger_count = 4 THEN Some("PASTE")
        ELSE IF finger_count = 0 /\ thumb_extended THEN Some("APP_SWITCH")
        ELSE None

Feedback(event) == [event |-> event, remaining |-> None]
FeedbackRemaining(event, remaining) == [event |-> event, remaining |-> Some(remaining)]

KbResult(active, start, ret, feedback) ==
    [is_active |-> active, activation_start_time |-> start, ret |-> ret,
     feedback |-> feedback]

\* _exit_keyboard_mode
ExitKeyboardMode(ret) ==
    KbResult(FALSE, None, ret, <<Feedback("keyboard_inactive")>>)

Max(a, b) == IF a >= b THEN a ELSE b

\* UpdateExtended activating only after more than hold_time
UpdateExtendedStrict(active, start, current_time) ==
    IF ~active /\ start = None
    THEN KbResult(active, Some(current_time), None,
                  <<FeedbackRemaining("keyboard_activating", HoldTimeMs)>>)
    ELSE IF (start # None /\ start[1] # 0) /\ ~active
    THEN LET held_time == current_time - start[1]
             remaining == Max(0, HoldTimeMs - held_time)
             activating == FeedbackRemaining("keyboard_activating", remaining)
         IN  IF held_time > HoldTimeMs
             THEN KbResult(TRUE, None, None,
                           <<activating, Feedback("keyboard_active")>>)
             ELSE KbResult(active, start, None, <<activating>>)
    ELSE KbResult(active, start, None, <<>>)

\* update(True, ...): the branch for all fingers extended
UpdateExtended(active, start, current_time) ==
    IF ~active /\ start = None
    THEN KbResult(active, Some(current_time), None,
                  <<FeedbackRemaining("keyboard_activating", HoldTimeMs)>>)
    ELSE IF (start # None /\ start[1] # 0) /\ ~active
    THEN LET held_time == current_time - start[1]
             remaining == Max(0, HoldTimeMs - held_time)
             activating == FeedbackRemaining("keyboard_activating", remaining)
         IN  IF held_time >= HoldTimeMs
             THEN KbResult(TRUE, None, None,
                           <<activating, Feedback("keyboard_active")>>)
             ELSE KbResult(active, start, None, <<activating>>)
    ELSE KbResult(active, start, None, <<>>)

\* UpdateNotExtended returning the shortcut without leaving keyboard mode
UpdateNotExtendedNoExit(active, start, finger_data) ==
    IF active
    THEN KbResult(active, start, DetectShortcut(finger_data), <<>>)
    ELSE KbResult(active, None, None, <<Feedback("keyboard_inactive")>>)

\* UpdateNotExtended leaving the activation timer running
UpdateNotExtendedKeepsTimer(active, start, finger_data) ==
    IF active
    THEN LET shortcut == DetectShortcut(finger_data)
         IN  IF shortcut # None
             THEN ExitKeyboardMode(shortcut)
             ELSE KbResult(active, start, None, <<>>)
    ELSE KbResult(active, start, None, <<Feedback("keyboard_inactive")>>)

\* update(False, finger_data): the branch for fingers not all extended
UpdateNotExtended(active, start, finger_data) ==
    IF active
    THEN LET shortcut == DetectShortcut(finger_data)
         IN  IF shortcut # None
             THEN ExitKeyboardMode(shortcut)
             ELSE KbResult(active, start, None, <<>>)
    ELSE KbResult(active, None, None, <<Feedback("keyboard_inactive")>>)

KbCall(op, all_fingers_extended, finger_data, res, t) ==
    [op |-> op, all_fingers_extended |-> all_fingers_extended,
     finger_data |-> finger_data, ret |-> res.ret, feedback |-> res.feedback,
     time |-> t, pre_is_active |-> is_active,
     pre_activation_start_time |-> activation_start_time]

(* The caller's observations: the time of the first call of the present    *)
(* uninterrupted run of update(True, ...) calls, before and after the last *)
(* call; no run is under way after any other call.                         *)

KbObsInit == [hold_start |-> None, prev_hold_start |-> None]

KbObsCall(obs, op, all_fingers_extended, t) ==
    [hold_start |-> IF op = "update" /\ all_fingers_extended
                    THEN IF obs.hold_start = None THEN Some(t) ELSE obs.hold_start
                    ELSE None,
     prev_hold_start |-> obs.hold_start]

\* update(all_fingers_extended, finger_data)
Update(all_fingers_extended, finger_data) ==
    /\ \E res \in {IF all_fingers_extended
                   THEN UpdateExtended(is_active, activation_start_time, now)
                   ELSE UpdateNotExtended(is_active, activation_start_time,
                                          finger_data)} :
           /\ is_active' = res.is_active
           /\ activation_start_time' = res.activation_start_time
           /\ kb_call' = KbCall("update", all_fingers_extended, finger_data,
                                res, now)
    /\ kb_obs' = KbObsCall(kb_obs, "update", all_fingers_extended, now)
    /\ UNCHANGED <<now, gr_vars, cal_vars, rest_vars>>

\* force_exit()
ForceExit ==
    /\ \E res \in {ExitKeyboardMode(None)} :
           /\ is_active' = res.is_active
           /\ activation_start_time' = res.activation_start_time
           /\ kb_call' = KbCall("force_exit", FALSE, EmptyDict, res, now)
    /\ kb_obs' = KbObsCall(kb_obs, "force_exit", FALSE, now)
    /\ UNCHANGED <<now, gr_vars, cal_vars, rest_vars>>

-----------------------------------------------------------------------------
(* ScreenCalibrator (calibration.py).  Screen and camera coordinates are   *)
(* counted in tenths of the screen and of the frame.  The flag             *)
(* show_instructions, read by the drawing code alone, is left out.         *)

\* CalibrationPoint.__init__
CalibrationPoint(screen_x, screen_y, name) ==
    [screen_x |-> screen_x, screen_y |-> screen_y, name |-> name,
     camera_x |-> None, camera_y |-> None, is_captured |-> FALSE]

\* CalibrationPoint.capture
Capture(point, camera_x, camera_y) ==
    [point EXCEPT !.camera_x = Some(camera_x), !.camera_y = Some(camera_y),
                  !.is_captured = TRUE]

\* ToDict writing the camera sample only when camera_x is truthy
ToDictTruthyCamera(point) ==
    [name |-> point.name,
     screen |-> <<point.screen_x, point.screen_y>>,
     camera |-> IF point.camera_x # None /\ point.camera_x[1] # 0
                THEN <<point.camera_x[1], point.camera_y[1]>> ELSE None,
     captured |-> point.is_captured]

\* CalibrationPoint.to_dict: the JSON object of a point; null is None
ToDict(point) ==
    [name |-> point.name,
     screen |-> <<point.screen_x, point.screen_y>>,
     camera |-> IF point.is_captured
                THEN <<point.camera_x[1], point.camera_y[1]>> ELSE None,
     captured |-> point.is_captured]

\* CalibrationPoint.from_dict raises: a key is missing or a list is too short
FromDictRaises(data) ==
    \/ "screen" \notin DOMAIN data
    \/ Len(data.screen) < 2
    \/ "name" \notin DOMAIN data
    \/ "captured" \notin DOMAIN data
    \/ /\ data.captured
       /\ \/ "camera" \notin DOMAIN data
          \/ data.camera # <<>> /\ Len(data.camera) < 2

\* CalibrationPoint.from_dict
FromDict(data) ==
    LET point == CalibrationPoint(data.screen[1], data.screen[2], data.name)
    IN  IF data.captured /\ data.camera # <<>>
        THEN Capture(point, data.camera[1], data.camera[2])
        ELSE point

\* ScreenCalibrator.__init__
NewCalibrator(screen_width, screen_height) ==
    [screen_width |-> screen_width, screen_height |-> screen_height,
     points |-> <<CalibrationPoint(1, 1, "Top Left"),
                  CalibrationPoint(9, 1, "Top Right"),
                  CalibrationPoint(9, 9, "Bottom Right"),
                  CalibrationPoint(1, 9, "Bottom Left")>>,
     current_point_index |-> 0,
     state |-> "WAITING"]

\* start_calibration
StartCalibrationResult(c) ==
    [c EXCEPT !.current_point_index = 0,
              !.state = "SHOWING_TARGET",
              !.points = [k \in 1..Len(c.points) |->
                             [c.points[k] EXCEPT !.is_captured = FALSE,
                                                 !.camera_x = None,
                                                 !.camera_y = None]]]

\* get_current_target
GetCurrentTarget(c) ==
    IF 0 <= c.current_point_index /\ c.current_point_index < Len(c.points)
    THEN Some(c.points[c.current_point_index + 1])
    ELSE None

CalResult(ret, c) == [ret |-> ret, calibrator |-> c]

\* CapturePointResult completing only when the index has passed the end
CapturePointResultLateComplete(c, finger_x, finger_y) ==
    IF GetCurrentTarget(c) = None THEN CalResult(FALSE, c)
    ELSE LET captured ==
                 [c EXCEPT !.points[c.current_point_index + 1] =
                               Capture(@, finger_x, finger_y),
                           !.current_point_index = @ + 1]
         IN  CalResult(TRUE,
                 [captured EXCEPT !.state =
                     IF captured.current_point_index > Len(captured.points)
                     THEN "COMPLETE" ELSE "SHOWING_TARGET"])

\* capture_point
CapturePointResult(c, finger_x, finger_y) ==
    IF GetCurrentTarget(c) = None THEN CalResult(FALSE, c)
    ELSE LET captured ==
                 [c EXCEPT !.points[c.current_point_index + 1] =
                               Capture(@, finger_x, finger_y),
                           !.current_point_index = @ + 1]
         IN  CalResult(TRUE,
                 [captured EXCEPT !.state =
                     IF captured.current_point_index >= Len(captured.points)
                     THEN "COMPLETE" ELSE "SHOWING_TARGET"])

\* is_complete
IsComplete(c) == c.state = "COMPLETE"

\* get_progress, as the fraction <<numerator, denominator>>
GetProgress(c) ==
    IF Len(c.points) = 0 THEN <<0, 1>>
    ELSE <<c.current_point_index, Len(c.points)>>

\* the paths the calibration file is named by: both name the same file, the
\* first has no directory part
Paths == {"screen_mapping.json", "./screen_mapping.json"}

\* os.path.dirname
Dirname(filepath) == IF filepath = "screen_mapping.json" THEN "" ELSE "."

JsonFile(name, data) == [name |-> name, kind |-> "object", data |-> data]

\* SaveCalibrationResult without the test of is_complete()
SaveCalibrationResultUnguarded(c, filepath, file, t) ==
    LET calibration_data ==
            [version |-> "1.0",
             timestamp |-> t,
             screen_resolution |-> <<c.screen_width, c.screen_height>>,
             points |-> [k \in 1..Len(c.points) |-> ToDict(c.points[k])]]
    IN  IF Dirname(filepath) = "" THEN [ret |-> FALSE, file |-> file]
        ELSE [ret |-> TRUE, file |-> Some(JsonFile("saved", calibration_data))]

\* save_calibration: the value returned and what the file holds afterwards;
\* os.makedirs raises on an empty directory name
SaveCalibrationResult(c, filepath, file, t) ==
    IF ~IsComplete(c) THEN [ret |-> FALSE, file |-> file]
    ELSE LET calibration_data ==
                 [version |-> "1.0",
                  timestamp |-> t,
                  screen_resolution |-> <<c.screen_width, c.screen_height>>,
                  points |-> [k \in 1..Len(c.points) |-> ToDict(c.points[k])]]
         IN  IF Dirname(filepath) = "" THEN [ret |-> FALSE, file |-> file]
             ELSE [ret |-> TRUE,
                   file |-> Some(JsonFile("saved", calibration_data))]

\* InvalidFormat taking a record of five points as well
InvalidFormatFourOrFive(data) ==
    "points" \notin DOMAIN data \/ Len(data.points) \notin {4, 5}

\* 'points' not in data or len(data['points']) != 4
InvalidFormat(data) ==
    "points" \notin DOMAIN data \/ Len(data.points) # 4

\* load_calibration: the value returned and the calibrator afterwards; every
\* exception is caught and makes it return False
LoadCalibrationResult(c, file) ==
    IF file = None THEN CalResult(FALSE, c)
    ELSE IF file[1].kind # "object" THEN CalResult(FALSE, c)
    ELSE LET data == file[1].data
         IN  IF InvalidFormat(data) THEN CalResult(FALSE, c)
             ELSE IF \E k \in 1..Len(data.points) : FromDictRaises(data.points[k])
             THEN CalResult(FALSE, c)
             ELSE LET loaded ==
                          [c EXCEPT !.points =
                              [k \in 1..Len(data.points) |->
                                  FromDict(data.points[k])]]
                  IN  IF "screen_resolution" \notin DOMAIN data
                      THEN CalResult(TRUE, [loaded EXCEPT !.state = "COMPLETE"])
                      ELSE IF Len(data.screen_resolution) # 2
                      THEN CalResult(FALSE, loaded)
                      ELSE CalResult(TRUE,
                               [loaded EXCEPT
                                   !.screen_width = data.screen_resolution[1],
                                   !.screen_height = data.screen_resolution[2],
                                   !.state = "COMPLETE"])

(* Calibration files written by other hands than save_calibration.         *)

CornerDicts ==
    <<[name |-> "Top Left", screen |-> <<1, 1>>, camera |-> <<2, 2>>,
       captured |-> TRUE],
      [name |-> "Top Right", screen |-> <<9, 1>>, camera |-> <<8, 2>>,
       captured |-> TRUE],
      [name |-> "Bottom Right", screen |-> <<9, 9>>, camera |-> <<8, 8>>,
       captured |-> TRUE],
      [name |-> "Bottom Left", screen |-> <<1, 9>>, camera |-> <<2, 8>>,
       captured |-> TRUE]>>

CenterDict ==
    [name |-> "Center", screen |-> <<5, 5>>, camera |-> <<5, 5>>,
     captured |-> TRUE]

FileNames ==
    {"four_points", "five_points", "three_points", "no_points", "invalid_json",
     "point_without_captured", "resolution_of_one", "resolution_of_strings"}

FileNamed(name) ==
    CASE name = "four_points" ->
             JsonFile(name, [version |-> "1.0", timestamp |-> 1,
                             screen_resolution |-> <<800, 600>>,
                             points |-> CornerDicts])
      [] name = "five_points" ->
             JsonFile(name, [version |-> "1.0", timestamp |-> 1,
                             screen_resolution |-> <<800, 600>>,
                             points |-> Append(CornerDicts, CenterDict),
                             hand_size |-> 2])
      [] name = "three_points" ->
             JsonFile(name, [version |-> "1.0", timestamp |-> 1,
                             screen_resolution |-> <<800, 600>>,
                             points |-> SubSeq(CornerDicts, 1, 3)])
      [] name = "no_points" -> JsonFile(name, [invalid |-> "data"])
      [] name = "invalid_json" -> [name |-> name, kind |-> "invalid"]
      [] name = "point_without_captured" ->
             JsonFile(name, [version |-> "1.0", timestamp |-> 1,
                             screen_resolution |-> <<800, 600>>,
                             points |-> [CornerDicts EXCEPT ![4] =
                                 [name |-> "Bottom Left", screen |-> <<1, 9>>]]])
      [] name = "resolution_of_one" ->
             JsonFile(name, [version |-> "1.0", timestamp |-> 1,
                             screen_resolution |-> <<800>>,
                             points |-> CornerDicts])
      [] name = "resolution_of_strings" ->
             JsonFile(name, [version |-> "1.0", timestamp |-> 1,
                             screen_resolution |-> <<"a", "b">>,
                             points |-> CornerDicts])

\* the positions of the fingertip handed to capture_point, and the screens
Samples == {<<0, 0>>, <<3, 7>>}
FileSamples == {<<3, 7>>}
Resolutions == {<<1920, 1080>>, <<800, 600>>}

(* The caller's observations: the number of points captured since          *)
(* start_calibration in the session under way (no session is under way     *)
(* before start_calibration and after load_calibration); whether the       *)
(* calibrator has loaded the points of a record; the points and the        *)
(* screen of the calibrator that wrote the file, while the file is as      *)
(* save_calibration left it; and, when the last call of the calibrator was *)
(* load_calibration, the name of the file it read ("missing" when there    *)
(* was none) and whether it changed the points, the index or the state.    *)

CalObsInit ==
    [session |-> None, loaded |-> FALSE, saved |-> None, read |-> None,
     changed |-> FALSE]

CalCall(op, ret, sample) ==
    [op |-> op, ret |-> ret, sample |-> sample,
     pre_state |-> calibrator.state,
     pre_index |-> calibrator.current_point_index]

\* ScreenCalibrator(screen_width, screen_height): a fresh calibrator is taken
\* into use
Construct(screen_width, screen_height) ==
    /\ calibrator' = NewCalibrator(screen_width, screen_height)
    /\ cal_call' = CalCall("__init__", None, None)
    /\ cal_obs' = [cal_obs EXCEPT !.session = None, !.loaded = FALSE,
                                  !.read = None, !.changed = FALSE]
    /\ UNCHANGED <<now, gr_vars, kb_vars, rest_vars, calibration_file>>

\* start_calibration()
StartCalibration ==
    /\ calibrator' = StartCalibrationResult(calibrator)
    /\ cal_call' = CalCall("start_calibration", None, None)
    /\ cal_obs' = [cal_obs EXCEPT !.session = Some(0),
                                  !.read = None, !.changed = FALSE]
    /\ UNCHANGED <<now, gr_vars, kb_vars, rest_vars, calibration_file>>

\* capture_point(finger_x, finger_y)
CapturePoint(finger_x, finger_y) ==
    /\ \E res \in {CapturePointResult(calibrator, finger_x, finger_y)} :
           /\ calibrator' = res.calibrator
           /\ cal_call' = CalCall("capture_point", Some(res.ret),
                                  Some(<<finger_x, finger_y>>))
           /\ cal_obs' = [cal_obs EXCEPT
                             !.session =
                                 IF @ # None /\ res.ret THEN Some(@[1] + 1) ELSE @,
                             !.read = None, !.changed = FALSE]
    /\ UNCHANGED <<now, gr_vars, kb_vars, rest_vars, calibration_file>>

\* cancel()
Cancel ==
    /\ calibrator' = [calibrator EXCEPT !.state = "CANCELLED"]
    /\ cal_call' = CalCall("cancel", None, None)
    /\ cal_obs' = [cal_obs EXCEPT !.read = None, !.changed = FALSE]
    /\ UNCHANGED <<now, gr_vars, kb_vars, rest_vars, calibration_file>>

\* save_calibration(filepath)
SaveCalibration(filepath) ==
    /\ \E res \in {SaveCalibrationResult(calibrator, filepath,
                                         calibration_file, now)} :
           /\ calibration_file' = res.file
           /\ cal_call' = CalCall("save_calibration", Some(res.ret), None)
           /\ cal_obs' = [cal_obs EXCEPT
                             !.saved =
                                 IF res.ret
                                 THEN Some([points |-> calibrator.points,
                                            screen_width |-> calibrator.screen_width,
                                            screen_height |-> calibrator.screen_height])
                                 ELSE @,
                             !.read = None, !.changed = FALSE]
    /\ UNCHANGED <<now, gr_vars, kb_vars, rest_vars, calibrator>>

\* load_calibration(filepath)
LoadCalibration(filepath) ==
    /\ \E res \in {LoadCalibrationResult(calibrator, calibration_file)} :
           /\ calibrator' = res.calibrator
           /\ cal_call' = CalCall("load_calibration", Some(res.ret), None)
           /\ cal_obs' = [cal_obs EXCEPT
                             !.session = None,
                             !.loaded = @ \/ res.calibrator.points # calibrator.points,
                             !.read = IF calibration_file = None
                                      THEN Some("missing")
                                      ELSE Some(calibration_file[1].name),
                             !.changed =
                                 \/ res.calibrator.points # calibrator.points
                                 \/ res.calibrator.state # calibrator.state
                                 \/ res.calibrator.current_point_index #
                                        calibrator.current_point_index]
    /\ UNCHANGED <<now, gr_vars, kb_vars, rest_vars, calibration_file>>

\* another program writes the calibration file, or removes it
WriteFile(name) ==
    /\ calibration_file' = Some(FileNamed(name))
    /\ cal_obs' = [cal_obs EXCEPT !.saved = None]
    /\ UNCHANGED <<now, gr_vars, kb_vars, rest_vars, calibrator, cal_call>>

RemoveFile ==
    /\ calibration_file # None
    /\ calibration_file' = None
    /\ cal_obs' = [cal_obs EXCEPT !.saved = None]
    /\ UNCHANGED <<now, gr_vars, kb_vars, rest_vars, calibrator, cal_call>>

-----------------------------------------------------------------------------
(* Smoothing (smoothing.py).  Values are whole pixels, timestamps are      *)
(* milliseconds, smoothing factors are thousandths, speeds are pixels per  *)
(* second and cutoff frequencies are millihertz; a quotient is rounded     *)
(* down.                                                                   *)

Min(a, b) == IF a <= b THEN a ELSE b

\* the parameters CursorController hands to the smoothers (their defaults):
\* mincutoff = 1.0 Hz, dcutoff = 1.0 Hz, beta = 0.007, ema alpha = 0.3,
\* LowPassFilter alpha = 0.1
MinCutoffMilliHz == 1000
DCutoffMilliHz == 1000
BetaPerMille == 7
EmaAlphaPerMille == 300
LowPassAlphaPerMille == 100

\* max(0.0, min(1.0, alpha))
ClampAlpha(alpha) == Max(0, Min(1000, alpha))

\* LowPassFilter.__init__
LowPassFilter(alpha) == [alpha |-> ClampAlpha(alpha), prev_output |-> None]

\* LowPassFilter.set_alpha
SetAlpha(f, alpha) == [f EXCEPT !.alpha = ClampAlpha(alpha)]

\* alpha * value + (1.0 - alpha) * prev
Blend(alpha, value, prev) == (alpha * value + (1000 - alpha) * prev) \div 1000

\* LowPassFilter.filter: the filter afterwards; its prev_output is returned
LowPassFilterFilter(f, value) ==
    IF f.prev_output = None
    THEN [f EXCEPT !.prev_output = Some(value)]
    ELSE [f EXCEPT !.prev_output = Some(Blend(f.alpha, value, f.prev_output[1]))]

\* LowPassFilter.reset
LowPassFilterReset(f) == [f EXCEPT !.prev_output = None]

\* OneEuroFilter.__init__
OneEuroFilter(mincutoff, beta, dcutoff) ==
    [kind |-> "one_euro",
     mincutoff |-> mincutoff, beta |-> beta, dcutoff |-> dcutoff,
     x_filter |-> LowPassFilter(LowPassAlphaPerMille),
     dx_filter |-> LowPassFilter(LowPassAlphaPerMille),
     prev_time |-> None, prev_value |-> None]

\* OneEuroFilter._get_alpha: 1 / (1 + tau / dt) with tau = 1 / (2 pi cutoff),
\* that is 2 pi cutoff dt / (2 pi cutoff dt + 1), with 710 / 113 for 2 pi
GetAlpha(cutoff, dt) ==
    LET k == (cutoff * dt) \div 1000
    IN  (710 * k) \div ((710 * k + 113000) \div 1000)

SmootherResult(ret, f) == [ret |-> ret, filter |-> f]

\* the update frequency a OneEuroFilter is constructed with, in Hz
FreqHz == 30

\* OneEuroFilterFilter taking 1 / freq for a time delta that is not positive
OneEuroFilterFilterFallback(f, value, timestamp) ==
    IF f.prev_time = None \/ f.prev_value = None
    THEN SmootherResult(value, [f EXCEPT !.prev_time = Some(timestamp),
                                         !.prev_value = Some(value)])
    ELSE LET dt == IF timestamp - f.prev_time[1] <= 0 THEN 1000 \div FreqHz
                   ELSE timestamp - f.prev_time[1]
             dx == ((value - f.prev_value[1]) * 1000) \div dt
             dx_filter == LowPassFilterFilter(
                              SetAlpha(f.dx_filter, GetAlpha(f.dcutoff, dt)),
                              dx)
             dx_smooth == dx_filter.prev_output[1]
             cutoff == f.mincutoff + f.beta * Abs(dx_smooth)
             x_filter == LowPassFilterFilter(
                             SetAlpha(f.x_filter, GetAlpha(cutoff, dt)),
                             value)
             result == x_filter.prev_output[1]
         IN  SmootherResult(result,
                 [f EXCEPT !.dx_filter = dx_filter,
                           !.x_filter = x_filter,
                           !.prev_time = Some(timestamp),
                           !.prev_value = Some(result)])

\* OneEuroFilter.filter
OneEuroFilterFilter(f, value, timestamp) ==
    IF f.prev_time = None \/ f.prev_value = None
    THEN SmootherResult(value, [f EXCEPT !.prev_time = Some(timestamp),
                                         !.prev_value = Some(value)])
    ELSE LET dt == timestamp - f.prev_time[1]
         IN  IF dt <= 0 THEN SmootherResult(value, f)
             ELSE LET dx == ((value - f.prev_value[1]) * 1000) \div dt
                      dx_filter == LowPassFilterFilter(
                                       SetAlpha(f.dx_filter, GetAlpha(f.dcutoff, dt)),
                                       dx)
                      dx_smooth == dx_filter.prev_output[1]
                      cutoff == f.mincutoff + f.beta * Abs(dx_smooth)
                      x_filter == LowPassFilterFilter(
                                      SetAlpha(f.x_filter, GetAlpha(cutoff, dt)),
                                      value)
                      result == x_filter.prev_output[1]
                  IN  SmootherResult(result,
                          [f EXCEPT !.dx_filter = dx_filter,
                                    !.x_filter = x_filter,
                                    !.prev_time = Some(timestamp),
                                    !.prev_value = Some(result)])

\* OneEuroFilterReset leaving the low-pass filters as they are
OneEuroFilterResetKeepsLowPass(f) ==
    [f EXCEPT !.prev_time = None, !.prev_value = None]

\* OneEuroFilter.reset
OneEuroFilterReset(f) ==
    [f EXCEPT !.x_filter = LowPassFilterReset(@),
              !.dx_filter = LowPassFilterReset(@),
              !.prev_time = None, !.prev_value = None]

\* EMAFilter.__init__
EMAFilter(alpha) ==
    [kind |-> "ema", alpha |-> ClampAlpha(alpha), prev_value |-> None]

\* EMAFilter.filter
EMAFilterFilter(f, value, timestamp) ==
    LET prev_value == IF f.prev_value = None THEN value
                      ELSE Blend(f.alpha, value, f.prev_value[1])
    IN  SmootherResult(prev_value, [f EXCEPT !.prev_value = Some(prev_value)])

\* EMAFilter.reset
EMAFilterReset(f) == [f EXCEPT !.prev_value = None]

\* Smoother.filter and Smoother.reset of the class the smoother has
SmootherFilter(f, value, timestamp) ==
    IF f.kind = "one_euro" THEN OneEuroFilterFilter(f, value, timestamp)
    ELSE EMAFilterFilter(f, value, timestamp)

SmootherReset(f) ==
    IF f.kind = "one_euro" THEN OneEuroFilterReset(f) ELSE EMAFilterReset(f)

SmootherTypes == {"one_euro", "ema"}

\* PointSmoother.__init__
PointSmoother(smoother_type) ==
    [smoother_type |-> smoother_type,
     x_smoother |-> IF smoother_type = "one_euro"
                    THEN OneEuroFilter(MinCutoffMilliHz, BetaPerMille, DCutoffMilliHz)
                    ELSE EMAFilter(EmaAlphaPerMille),
     y_smoother |-> IF smoother_type = "one_euro"
                    THEN OneEuroFilter(MinCutoffMilliHz, BetaPerMille, DCutoffMilliHz)
                    ELSE EMAFilter(EmaAlphaPerMille)]

PointResult(ret, ps) == [ret |-> ret, smoother |-> ps]

\* PointSmootherFilter with the one smoother given both coordinates
PointSmootherFilterSharedSmoother(ps, point, timestamp) ==
    LET smooth_x == SmootherFilter(ps.x_smoother, point[1], timestamp)
        smooth_y == SmootherFilter(smooth_x.filter, point[2], timestamp)
    IN  PointResult(<<smooth_x.ret, smooth_y.ret>>,
                    [ps EXCEPT !.x_smoother = smooth_y.filter])

\* PointSmoother.filter
PointSmootherFilter(ps, point, timestamp) ==
    LET smooth_x == SmootherFilter(ps.x_smoother, point[1], timestamp)
        smooth_y == SmootherFilter(ps.y_smoother, point[2], timestamp)
    IN  PointResult(<<smooth_x.ret, smooth_y.ret>>,
                    [ps EXCEPT !.x_smoother = smooth_x.filter,
                               !.y_smoother = smooth_y.filter])

\* PointSmoother.reset
PointSmootherReset(ps) ==
    [ps EXCEPT !.x_smoother = SmootherReset(@), !.y_smoother = SmootherReset(@)]

\* the coordinates handed to the smoothers, and the number of filter calls
\* followed after a construction or a reset
Coordinates == {0, 960}
OtherCoordinates == {540}
MaxCalls == 4

\* the axes of a point
Axes == {1, 2}

SmCall(op, point, other_point, ret, fresh_ret, other_ret, calls, varied) ==
    [op |-> op, point |-> point, other_point |-> other_point, ret |-> ret,
     fresh_ret |-> fresh_ret, other_ret |-> other_ret, calls |-> calls,
     varied |-> varied, time |-> now, pre |-> smoother]

\* PointSmoother(smoother_type, **smoother_params); from now on the points
\* given to other_smoother differ on the axis varied
ConstructSmoother(smoother_type, varied) ==
    /\ smoother' = PointSmoother(smoother_type)
    /\ fresh_smoother' = PointSmoother(smoother_type)
    /\ other_smoother' = PointSmoother(smoother_type)
    /\ sm_call' = SmCall("__init__", None, None, None, None, None, 0, varied)
    /\ UNCHANGED <<cfg_vars, now, gr_vars, kb_vars, cal_vars, cam_vars, app_vars>>

\* filter(point): the timestamp is time.time()
Filter(x, y, other) ==
    /\ sm_call.calls < MaxCalls
    /\ \E other_point \in {IF sm_call.varied = 1 THEN <<other, y>>
                           ELSE <<x, other>>} :
       \E res \in {PointSmootherFilter(smoother, <<x, y>>, now)},
          fresh \in {PointSmootherFilter(fresh_smoother, <<x, y>>, now)},
          other_res \in {PointSmootherFilter(other_smoother, other_point, now)} :
           /\ smoother' = res.smoother
           /\ fresh_smoother' = fresh.smoother
           /\ other_smoother' = other_res.smoother
           /\ sm_call' = SmCall("filter", Some(<<x, y>>), Some(other_point),
                                Some(res.ret), Some(fresh.ret),
                                Some(other_res.ret), sm_call.calls + 1,
                                sm_call.varied)
    /\ UNCHANGED <<cfg_vars, now, gr_vars, kb_vars, cal_vars, cam_vars, app_vars>>

\* reset()
ResetSmoother ==
    /\ smoother' = PointSmootherReset(smoother)
    /\ fresh_smoother' = PointSmoother(smoother.smoother_type)
    /\ other_smoother' = PointSmootherReset(other_smoother)
    /\ sm_call' = SmCall("reset", None, None, None, None, None, 0,
                         sm_call.varied)
    /\ UNCHANGED <<cfg_vars, now, gr_vars, kb_vars, cal_vars, cam_vars, app_vars>>

-----------------------------------------------------------------------------
(* Camera (camera.py).  A frame is a sequence of rows of pixels; the       *)
(* device numbers the frames it delivers.  A cv2.VideoCapture is a record: *)
(* whether it holds the device, how often release() was called on it, and  *)
(* whether an open() that made it returned True.  The camera refers to its *)
(* VideoCapture by its place in captures.                                  *)

\* the frame of this number, as the device delivers it
DeviceFrame(n) == <<<<10 * n + 1, 10 * n + 2>>, <<10 * n + 3, 10 * n + 4>>>>

\* cv2.flip(frame, 1): every row from right to left
Flip(frame) ==
    [r \in 1..Len(frame) |->
        [k \in 1..Len(frame[r]) |-> frame[r][Len(frame[r]) + 1 - k]]]

\* Camera.__init__
NewCamera == [cap |-> None, is_opened |-> FALSE, mirror |-> TRUE]

\* cv2.VideoCapture(camera_index)
VideoCapture(available) ==
    [is_open |-> available, releases |-> 0, opened |-> FALSE]

\* cap.release()
Release(capture) == [capture EXCEPT !.is_open = FALSE, !.releases = @ + 1]

\* what the device does when open() asks for it: it cannot be had, it
\* delivers no test frame, setting it up raises, or it works
OpenOutcomes == {"unavailable", "no_frame", "raises", "ok"}

CamResult(ret, c, caps, frame, next_frame, touched) ==
    [ret |-> ret, camera |-> c, captures |-> caps, frame |-> frame,
     device_frame |-> next_frame, touched |-> touched]

\* CameraOpen setting is_opened before the test frame is read
CameraOpenFlagsEarly(c, caps, next_frame, outcome) ==
    LET made == Append(caps, VideoCapture(outcome # "unavailable"))
        cap == Len(made)
        with_cap == [c EXCEPT !.cap = Some(cap)]
    IN  IF ~made[cap].is_open
        THEN CamResult(FALSE, with_cap, made, None, next_frame, TRUE)
        ELSE IF outcome \in {"no_frame", "raises"}
        THEN CamResult(FALSE, [with_cap EXCEPT !.is_opened = TRUE],
                       [made EXCEPT ![cap] = Release(@)], None, next_frame, TRUE)
        ELSE CamResult(TRUE, [with_cap EXCEPT !.is_opened = TRUE],
                       [made EXCEPT ![cap].opened = TRUE], None,
                       next_frame + 1, TRUE)

\* Camera.open
CameraOpen(c, caps, next_frame, outcome) ==
    LET made == Append(caps, VideoCapture(outcome # "unavailable"))
        cap == Len(made)
        with_cap == [c EXCEPT !.cap = Some(cap)]
    IN  IF ~made[cap].is_open
        THEN CamResult(FALSE, with_cap, made, None, next_frame, TRUE)
        ELSE IF outcome \in {"no_frame", "raises"}
        THEN CamResult(FALSE, with_cap, [made EXCEPT ![cap] = Release(@)],
                       None, next_frame, TRUE)
        ELSE CamResult(TRUE, [with_cap EXCEPT !.is_opened = TRUE],
                       [made EXCEPT ![cap].opened = TRUE], None,
                       next_frame + 1, TRUE)

\* CameraRead returning the frame as the device delivered it
CameraReadUnmirrored(c, caps, next_frame, delivered) ==
    IF ~c.is_opened \/ c.cap = None
    THEN CamResult(FALSE, c, caps, None, next_frame, FALSE)
    ELSE IF ~(caps[c.cap[1]].is_open /\ delivered)
    THEN CamResult(FALSE, c, caps, None, next_frame, TRUE)
    ELSE CamResult(TRUE, c, caps, Some(DeviceFrame(next_frame)),
                   next_frame + 1, TRUE)

\* Camera.read: cap.read() delivers a frame when the VideoCapture holds the
\* device and the device delivers one
CameraRead(c, caps, next_frame, delivered) ==
    IF ~c.is_opened \/ c.cap = None
    THEN CamResult(FALSE, c, caps, None, next_frame, FALSE)
    ELSE IF ~(caps[c.cap[1]].is_open /\ delivered)
    THEN CamResult(FALSE, c, caps, None, next_frame, TRUE)
    ELSE CamResult(TRUE, c, caps,
                   Some(IF c.mirror THEN Flip(DeviceFrame(next_frame))
                        ELSE DeviceFrame(next_frame)),
                   next_frame + 1, TRUE)

\* Camera.close, which returns nothing
CameraClose(c, caps, next_frame) ==
    IF c.cap # None
    THEN CamResult(FALSE, [c EXCEPT !.is_opened = FALSE],
                   [caps EXCEPT ![c.cap[1]] = Release(@)], None, next_frame,
                   TRUE)
    ELSE CamResult(FALSE, c, caps, None, next_frame, FALSE)

\* how many VideoCapture objects a camera makes, how many frames the device
\* delivers, and how often close() and __exit__ are called on a VideoCapture
MaxOpens == 2
MaxFrames == 3
MaxReleases == 2

(* The caller's observations: whether the camera object has been torn     *)
(* down, whether a with statement has entered it, and whether the last    *)
(* open() failed.                                                          *)

CamObsInit == [torn_down |-> FALSE, entered |-> FALSE, open_failed |-> FALSE]

CamCall(op, ret, frame, touched, raised) ==
    [op |-> op, ret |-> ret, frame |-> frame, touched |-> touched,
     raised |-> raised, pre |-> camera, pre_device_frame |-> device_frame]

\* the camera is used by its caller while no HandControlApp holds one
NoApp == app.state \in {"none", "failed"}

\* the released VideoCapture may be released once more by close()
MayClose ==
    camera.cap # None => captures[camera.cap[1]].releases < MaxReleases

\* Camera(): a camera is constructed once the one before is torn down
ConstructCamera ==
    /\ NoApp
    /\ cam_obs.torn_down
    /\ camera' = NewCamera
    /\ captures' = <<>>
    /\ cam_call' = CamCall("__init__", None, None, FALSE, FALSE)
    /\ cam_obs' = CamObsInit
    /\ UNCHANGED <<cfg_vars, now, gr_vars, kb_vars, cal_vars, sm_vars, app_vars, device_frame>>

\* open()
Open(outcome) ==
    /\ NoApp
    /\ ~cam_obs.torn_down
    /\ Len(captures) < MaxOpens
    /\ device_frame < MaxFrames
    /\ \E res \in {CameraOpen(camera, captures, device_frame, outcome)} :
           /\ camera' = res.camera
           /\ captures' = res.captures
           /\ device_frame' = res.device_frame
           /\ cam_call' = CamCall("open", Some(res.ret), None, TRUE, FALSE)
           /\ cam_obs' = [cam_obs EXCEPT !.open_failed = ~res.ret]
    /\ UNCHANGED <<cfg_vars, now, gr_vars, kb_vars, cal_vars, sm_vars, app_vars>>

\* read()
Read(delivered) ==
    /\ NoApp
    /\ ~cam_obs.torn_down
    /\ device_frame < MaxFrames
    /\ \E res \in {CameraRead(camera, captures, device_frame, delivered)} :
           /\ device_frame' = res.device_frame
           /\ cam_call' = CamCall("read", Some(res.ret), res.frame, res.touched,
                                  FALSE)
    /\ UNCHANGED <<cfg_vars, now, gr_vars, kb_vars, cal_vars, sm_vars, app_vars, camera, captures,
                   cam_obs>>

\* close()
Close ==
    /\ NoApp
    /\ ~cam_obs.torn_down
    /\ MayClose
    /\ \E res \in {CameraClose(camera, captures, device_frame)} :
           /\ camera' = res.camera
           /\ captures' = res.captures
           /\ cam_call' = CamCall("close", None, None, res.touched, FALSE)
    /\ UNCHANGED <<cfg_vars, now, gr_vars, kb_vars, cal_vars, sm_vars, app_vars, device_frame,
                   cam_obs>>

\* __enter__ of a with statement: open(), and RuntimeError when it fails
Enter(outcome) ==
    /\ NoApp
    /\ ~cam_obs.torn_down
    /\ ~cam_obs.entered
    /\ Len(captures) < MaxOpens
    /\ device_frame < MaxFrames
    /\ \E res \in {CameraOpen(camera, captures, device_frame, outcome)} :
           /\ camera' = res.camera
           /\ captures' = res.captures
           /\ device_frame' = res.device_frame
           /\ cam_call' = CamCall("__enter__", Some(res.ret), None, TRUE,
                                  ~res.ret)
           /\ cam_obs' = [cam_obs EXCEPT !.open_failed = ~res.ret,
                                         !.entered = res.ret]
    /\ UNCHANGED <<cfg_vars, now, gr_vars, kb_vars, cal_vars, sm_vars, app_vars>>

\* __exit__ of the with statement that entered: close()
Exit ==
    /\ NoApp
    /\ ~cam_obs.torn_down
    /\ cam_obs.entered
    /\ MayClose
    /\ \E res \in {CameraClose(camera, captures, device_frame)} :
           /\ camera' = res.camera
           /\ captures' = res.captures
           /\ cam_call' = CamCall("__exit__", None, None, res.touched, FALSE)
    /\ cam_obs' = [cam_obs EXCEPT !.entered = FALSE]
    /\ UNCHANGED <<cfg_vars, now, gr_vars, kb_vars, cal_vars, sm_vars, app_vars, device_frame>>

\* __del__, when the camera object is torn down outside a with statement:
\* close()
Del ==
    /\ NoApp
    /\ ~cam_obs.torn_down
    /\ ~cam_obs.entered
    /\ \E res \in {CameraClose(camera, captures, device_frame)} :
           /\ camera' = res.camera
           /\ captures' = res.captures
           /\ cam_call' = CamCall("__del__", None, None, res.touched, FALSE)
    /\ cam_obs' = [cam_obs EXCEPT !.torn_down = TRUE]
    /\ UNCHANGED <<cfg_vars, now, gr_vars, kb_vars, cal_vars, sm_vars, app_vars, device_frame>>

-----------------------------------------------------------------------------
(* HandControlApp (main.py) with its CursorController (cursor_control.py)  *)
(* and the pyautogui calls they make.  The preview drawing is left out.    *)

\* no HandControlApp has been constructed
NoHandControlApp ==
    [state |-> "none", is_running |-> FALSE, is_paused |-> FALSE,
     show_preview |-> FALSE, last_click_time |-> 0, last_scroll_time |-> 0]

\* HandControlApp.__init__ once the camera is open
NewHandControlApp(preview) ==
    [state |-> "constructed", is_running |-> FALSE, is_paused |-> FALSE,
     show_preview |-> preview, last_click_time |-> 0, last_scroll_time |-> 0]

\* CursorController.__init__: is_dragging, and the pointer button as the
\* last mouseDown or mouseUp left it
NewCursor == [is_dragging |-> FALSE, button_down |-> FALSE]

\* pyautogui's fail-safe check at the start of a call: FailSafeException
\* when FAILSAFE is set and the pointer is in a corner of the screen
FailSafeCheck(fs, corner) == fs /\ corner

\* what a call on the cursor controller leaves: the controller, whether
\* FailSafeException was raised, and the button events it emitted
CursorResult(cur, raised, events) ==
    [cursor |-> cur, raised |-> raised, events |-> events]

\* start_drag without its test of is_dragging
StartDragUnguarded(cur, fs, corner) ==
    IF FailSafeCheck(fs, corner) THEN CursorResult(cur, TRUE, <<>>)
    ELSE CursorResult([is_dragging |-> TRUE, button_down |-> TRUE], FALSE,
                      <<"mouseDown">>)

\* CursorController.start_drag
StartDrag(cur, fs, corner) ==
    IF ~cur.is_dragging
    THEN IF FailSafeCheck(fs, corner) THEN CursorResult(cur, TRUE, <<>>)
         ELSE CursorResult([is_dragging |-> TRUE, button_down |-> TRUE], FALSE,
                           <<"mouseDown">>)
    ELSE CursorResult(cur, FALSE, <<>>)

\* CursorController.stop_drag
StopDrag(cur, fs, corner) ==
    IF cur.is_dragging
    THEN IF FailSafeCheck(fs, corner) THEN CursorResult(cur, TRUE, <<>>)
         ELSE CursorResult([is_dragging |-> FALSE, button_down |-> FALSE],
                           FALSE, <<"mouseUp">>)
    ELSE CursorResult(cur, FALSE, <<>>)

\* CursorController.toggle_drag
ToggleDrag(cur, fs, corner) ==
    IF cur.is_dragging THEN StopDrag(cur, fs, corner)
    ELSE StartDrag(cur, fs, corner)

\* what _handle_gesture leaves: the application, the cursor controller, the
\* keyboard mode, the call of KeyboardMode.update it made if any, the
\* exception it raised if any, and the calls it made on the cursor
\* controller
HandleResult(a, cur, active, start, update, raised, calls) ==
    [app |-> a, cursor |-> cur, is_active |-> active,
     activation_start_time |-> start, update |-> update, raised |-> raised,
     calls |-> calls]

\* the call of KeyboardMode.update made by _handle_gesture, and
\* execute_shortcut for the shortcut it returns
HandleKeyboard(a, cur, active, start, all_fingers_extended, finger_data, fs, corner, t) ==
    LET res == IF all_fingers_extended
               THEN UpdateExtended(active, start, t)
               ELSE UpdateNotExtended(active, start, finger_data)
        update == [all_fingers_extended |-> all_fingers_extended,
                   finger_data |-> finger_data, res |-> res]
    IN  HandleResult(a, cur, res.is_active, res.activation_start_time,
                     Some(update),
                     IF res.ret # None /\ FailSafeCheck(fs, corner)
                     THEN "FailSafeException" ELSE "", <<>>)

\* the method of the cursor controller that a click gesture calls
ClickCall(type) ==
    IF type = "LEFT_CLICK" THEN "left_click"
    ELSE IF type = "RIGHT_CLICK" THEN "right_click"
    ELSE "double_click"

\* CanClick with the end of the cooldown open to a click
CanClickAtCooldown(t, last_click) == t - last_click >= CooldownClickMs

\* _can_click at the time t
CanClick(t, last_click) == t - last_click > CooldownClickMs

\* HandControlApp._handle_gesture(gesture_type, gesture_data, landmarks) at
\* the time t
HandleGesture(gesture, has_landmarks, a, cur, active, start, fs, corner, t) ==
    LET type == gesture.gesture_type
        data == gesture.data
        same(raised) ==
            HandleResult(a, cur, active, start, None, raised, <<>>)
        called(call) ==
            HandleResult(a, cur, active, start, None, "FailSafeException",
                         <<call>>)
    IN  IF type = "MOVE"
        THEN \* frame is no name of _handle_gesture
             IF has_landmarks THEN same("NameError") ELSE same("")
        ELSE IF type \in ClickTypes
        THEN IF CanClick(t, a.last_click_time)
             THEN IF FailSafeCheck(fs, corner) THEN called(ClickCall(type))
                  ELSE HandleResult([a EXCEPT !.last_click_time = t], cur,
                                    active, start, None, "",
                                    <<ClickCall(type)>>)
             ELSE same("")
        ELSE IF type = "SCROLL"
        THEN IF /\ t - a.last_scroll_time > CooldownScrollMs
                /\ Abs(Get(data, "scroll_delta", 0)) > 5
             THEN LET call == IF Get(data, "scroll_delta", 0) > 0
                              THEN "scroll(1)" ELSE "scroll(-1)"
                  IN  IF FailSafeCheck(fs, corner) THEN called(call)
                      ELSE HandleResult([a EXCEPT !.last_scroll_time = t],
                                        cur, active, start, None, "",
                                        <<call>>)
             ELSE same("")
        ELSE IF type = "DRAG"
        THEN LET toggled == ToggleDrag(cur, fs, corner)
             IN  HandleResult(a, toggled.cursor, active, start, None,
                              IF toggled.raised THEN "FailSafeException"
                              ELSE "", <<"toggle_drag">>)
        ELSE IF type = "KEYBOARD"
        THEN HandleKeyboard(a, cur, active, start,
                            Get(data, "finger_count", 0) = 5, data, fs, corner,
                            t)
        ELSE IF type = "IDLE"
        THEN HandleKeyboard(a, cur, active, start, FALSE, EmptyDict, fs,
                            corner, t)
        ELSE same("")

\* HandTracker.track(frame), called by run(): the landmarks of the hand in
\* the frame, or None
TrackerTrack(hand) == hand

\* GestureRecognizer.recognize(landmarks), called by run(): the candidate
\* of the frame goes through the stability window and the cooldowns, and the
\* stable gesture is returned, or None
RecognizerRecognize(landmarks, history, stable, last_click, last_scroll, kms, t) ==
    LET rec == RecognizeGesture(landmarks, kms, t)
        appended == DequeAppend(history, rec.gesture)
        d == Debounce(appended, rec.gesture, t, stable, last_click, last_scroll)
    IN  [ret |-> d.ret, candidate |-> rec.gesture,
         gesture_history |-> appended, stable_gesture |-> d.stable_gesture,
         last_click_time |-> d.last_click_time,
         last_scroll_time |-> d.last_scroll_time,
         keyboard_mode_start |-> rec.keyboard_mode_start]

\* what cleanup leaves: the cursor controller, the camera, whether it raised,
\* and the calls it made on the pointer and on the camera, in order
CleanupResult(cur, c, caps, raised, effects) ==
    [cursor |-> cur, camera |-> c, captures |-> caps, raised |-> raised,
     effects |-> effects]

\* HandControlApp.cleanup
Cleanup(cur, c, caps, next_frame, fs, corner) ==
    LET stopped == IF cur.is_dragging THEN StopDrag(cur, fs, corner)
                   ELSE CursorResult(cur, FALSE, <<>>)
        closed == CameraClose(c, caps, next_frame)
        released == IF cur.is_dragging THEN <<"mouseUp">> ELSE <<>>
    IN  IF stopped.raised
        THEN CleanupResult(cur, c, caps, "FailSafeException", <<>>)
        ELSE CleanupResult(stopped.cursor, closed.camera, closed.captures, "",
                           released \o <<"close">>)

\* EndedBy going on to the next pass after a failed frame read
EndedBySkipsFailedFrame(success, frame, raised, key) ==
    IF ~success \/ frame = None THEN ""
    ELSE IF raised # "" THEN "exception"
    ELSE IF key = "q" THEN "quit"
    ELSE ""

\* what ends the loop of run() in a pass, if anything: the break after a
\* failed frame read, an exception, or the break on the key q
EndedBy(success, frame, raised, key) ==
    IF ~success \/ frame = None THEN "frame_failure"
    ELSE IF raised # "" THEN "exception"
    ELSE IF key = "q" THEN "quit"
    ELSE ""

\* how many frames the device delivers to an application
MaxAppFrames == 6
\* how far the clock runs while the application runs
AppHorizon == 1000

\* the hands shown to a running application
AppHands == {Some(DragHand), Some(AllFingersHand), Some(MoveHand), None}
\* the keys cv2.waitKey returns to the run loop
Keys == {"none", "q", "p", "r"}

(* The user's observations: the number of frames with a hand that the     *)
(* running application has been shown since it was constructed or since the *)
(* last frame without a hand (counted up to the stability window), the time *)
(* of the first frame of the present uninterrupted run of frames with all   *)
(* five fingers extended, and the time of the last click performed, before  *)
(* and after the last call.                                                 *)

AppObsInit ==
    [streak |-> 0, hold_start |-> None, click_time |-> None,
     prev_click_time |-> None, last_event |-> "", alternates |-> TRUE]

\* a click has been performed by the call that left h
Clicked(h) ==
    /\ h.raised = ""
    /\ h.calls # <<>>
    /\ h.calls[1] \in {"left_click", "right_click", "double_click"}

AppObsCall(obs, h, t) ==
    [obs EXCEPT !.click_time = IF Clicked(h) THEN Some(t) ELSE @,
                !.prev_click_time = obs.click_time]

AppObsFrame(obs, hand, h, t) ==
    [AppObsCall(obs, h, t) EXCEPT
        !.streak = IF hand = None THEN 0
                   ELSE IF obs.streak < StabilityFrames THEN obs.streak + 1
                   ELSE obs.streak,
        !.hold_start = IF hand = Some(AllFingersHand)
                       THEN IF obs.hold_start = None THEN Some(t)
                            ELSE obs.hold_start
                       ELSE None]

AppCall(op, raised, ended_by, handled, effects) ==
    [op |-> op, raised |-> raised, ended_by |-> ended_by,
     handled |-> handled, effects |-> effects, pre_failsafe |-> failsafe,
     calls |-> <<>>, time |-> now, pre_dragging |-> cursor.is_dragging]

\* pyautogui.FAILSAFE = False, by code outside these components
DisableFailsafe ==
    /\ failsafe
    /\ app.state = "none"
    /\ failsafe' = FALSE
    /\ UNCHANGED <<cfg_vars, app_obs, now, gr_vars, kb_vars, cal_vars, sm_vars, cam_vars, app,
                   cursor, pointer_in_corner, app_call>>

\* the user moves the pointer into a corner of the screen, or out of it
MovePointer(corner) ==
    /\ pointer_in_corner # corner
    /\ pointer_in_corner' = corner
    /\ UNCHANGED <<cfg_vars, app_obs, now, gr_vars, kb_vars, cal_vars, sm_vars, cam_vars, app,
                   cursor, failsafe, app_call>>

\* ConstructKeyboardMode leaving pyautogui.FAILSAFE as it finds it
ConstructKeyboardModeKeepsFailsafe ==
    /\ app.state = "none"
    /\ is_active' = FALSE
    /\ activation_start_time' = None
    /\ app_call' = AppCall("KeyboardMode", "", "", None, <<>>)
    /\ UNCHANGED <<cfg_vars, app_obs, now, gr_vars, kb_call, kb_obs, cal_vars, sm_vars, cam_vars,
                   app, cursor, pointer_in_corner, failsafe>>

\* KeyboardMode(...)
ConstructKeyboardMode ==
    /\ app.state = "none"
    /\ is_active' = FALSE
    /\ activation_start_time' = None
    /\ failsafe' = TRUE
    /\ app_call' = AppCall("KeyboardMode", "", "", None, <<>>)
    /\ UNCHANGED <<cfg_vars, app_obs, now, gr_vars, kb_call, kb_obs, cal_vars, sm_vars, cam_vars,
                   app, cursor, pointer_in_corner>>

\* CursorController(config)
ConstructCursorController ==
    /\ app.state = "none"
    /\ cursor' = [NewCursor EXCEPT !.button_down = cursor.button_down]
    /\ smoother' = PointSmoother("one_euro")
    /\ failsafe' = TRUE
    /\ app_call' = AppCall("CursorController", "", "", None, <<>>)
    /\ app_obs' = [app_obs EXCEPT !.last_event = "", !.alternates = TRUE]
    /\ UNCHANGED <<cfg_vars, now, gr_vars, kb_vars, cal_vars, fresh_smoother,
                   other_smoother, sm_call, cam_vars, app, pointer_in_corner>>

\* the button events of the controller as its caller sees them: the last
\* one, and whether each one so far differed from the one before it, the
\* first one being a button-down
AppObsEvents(obs, events) ==
    IF events = <<>> THEN obs
    ELSE [obs EXCEPT
             !.last_event = events[1],
             !.alternates =
                 /\ obs.alternates
                 /\ events[1] # obs.last_event
                 /\ obs.last_event = "" => events[1] = "mouseDown"]

DragOps == {"start_drag", "stop_drag", "toggle_drag"}

\* the method of the cursor controller that op names
DragOp(op, cur, fs, corner) ==
    IF op = "start_drag" THEN StartDrag(cur, fs, corner)
    ELSE IF op = "stop_drag" THEN StopDrag(cur, fs, corner)
    ELSE ToggleDrag(cur, fs, corner)

\* start_drag(), stop_drag() or toggle_drag() called on the cursor
\* controller
DragCall(op) ==
    /\ app.state = "none"
    /\ \E r \in {DragOp(op, cursor, failsafe, pointer_in_corner)} :
           /\ cursor' = r.cursor
           /\ app_call' = [AppCall(op, IF r.raised THEN "FailSafeException"
                                       ELSE "", "", None, <<>>)
                              EXCEPT !.calls = r.events]
           /\ app_obs' = AppObsEvents(app_obs, r.events)
    /\ UNCHANGED <<cfg_vars, now, gr_vars, kb_vars, cal_vars, sm_vars, cam_vars, app,
                   pointer_in_corner, failsafe>>

\* HandControlApp(preview = preview): the components are constructed, then
\* the camera is opened, and RuntimeError is raised when that fails
ConstructApp(outcome, preview) ==
    /\ app.state = "none"
    /\ camera.cap = None
    /\ device_frame < MaxAppFrames
    /\ \E opened \in {CameraOpen(NewCamera, <<>>, device_frame, outcome)} :
           /\ camera' = opened.camera
           /\ captures' = opened.captures
           /\ device_frame' = opened.device_frame
           /\ cam_call' = [CamCall("open", Some(opened.ret), None, TRUE, FALSE)
                              EXCEPT !.pre = NewCamera]
           /\ cam_obs' = [CamObsInit EXCEPT !.open_failed = ~opened.ret]
           /\ app' = IF opened.ret THEN NewHandControlApp(preview)
                     ELSE [NoHandControlApp EXCEPT !.state = "failed"]
           /\ app_call' = AppCall("HandControlApp",
                                  IF opened.ret THEN "" ELSE "RuntimeError",
                                  "", None, <<>>)
    /\ gesture_history' = <<>>
    /\ stable_gesture' = None
    /\ last_click_time' = 0
    /\ last_scroll_time' = 0
    /\ keyboard_mode_start' = None
    /\ in_keyboard_mode' = FALSE
    /\ is_active' = FALSE
    /\ activation_start_time' = None
    /\ cursor' = [NewCursor EXCEPT !.button_down = cursor.button_down]
    /\ smoother' = PointSmoother("one_euro")
    /\ failsafe' = TRUE
    /\ app_obs' = AppObsInit
    /\ UNCHANGED <<cfg_vars, now, gr_call, gr_obs, cl_obs, kb_call, kb_obs, cal_vars,
                   fresh_smoother, other_smoother, sm_call, pointer_in_corner>>

\* the gestures handed to _handle_gesture by a caller, with payloads made
\* by hand
HandlerGestures ==
    {GestureState(type, 100, EmptyDict) : type \in ClickTypes \cup {"DRAG"}}
        \cup {GestureState("SCROLL", 100, [scroll_delta |-> d]) :
                  d \in {10, 0 - 15}}

\* _handle_gesture(gesture_type, gesture_data, None) called on a constructed
\* application
HandleGestureCall(gesture) ==
    /\ app.state = "constructed"
    /\ \E h \in {HandleGesture(gesture, FALSE, app, cursor, is_active,
                                activation_start_time, failsafe,
                                pointer_in_corner, now)} :
           /\ app' = h.app
           /\ cursor' = h.cursor
           /\ is_active' = h.is_active
           /\ activation_start_time' = h.activation_start_time
           /\ kb_call' = IF h.update # None
                         THEN KbCall("update", h.update[1].all_fingers_extended,
                                     h.update[1].finger_data, h.update[1].res,
                                     now)
                         ELSE kb_call
           /\ kb_obs' = IF h.update # None
                        THEN KbObsCall(kb_obs, "update",
                                       h.update[1].all_fingers_extended, now)
                        ELSE kb_obs
           /\ app_call' = [AppCall("_handle_gesture", h.raised, "",
                                   Some(gesture), <<>>)
                              EXCEPT !.calls = h.calls]
           /\ app_obs' = AppObsCall(app_obs, h, now)
    /\ UNCHANGED <<cfg_vars, now, gr_vars, cal_vars, sm_vars, cam_vars,
                   pointer_in_corner, failsafe>>

\* run() up to its loop
Run ==
    /\ app.state = "constructed"
    /\ app' = [app EXCEPT !.state = "running", !.is_running = TRUE]
    /\ app_call' = AppCall("run", "", "", None, <<>>)
    /\ UNCHANGED <<cfg_vars, app_obs, now, gr_vars, kb_vars, cal_vars, sm_vars, cam_vars, cursor,
                   pointer_in_corner, failsafe>>

\* one pass of the loop of run(): the device delivers a frame or not, the
\* frame shows a hand or not, and the preview window returns a key; with
\* cleanup when the pass ends the loop
RunIteration(delivered, hand, key) ==
    /\ app.state = "running"
    /\ device_frame < MaxAppFrames
    /\ key # "none" => app.show_preview
    /\ \E rd \in {CameraRead(camera, captures, device_frame, delivered)} :
       \E landmarks \in {IF rd.ret /\ ~app.is_paused THEN TrackerTrack(hand)
                         ELSE None} :
       \E rec \in {IF landmarks # None
                   THEN RecognizerRecognize(landmarks[1], gesture_history,
                            stable_gesture, last_click_time, last_scroll_time,
                            keyboard_mode_start, now)
                   ELSE [ret |-> None, candidate |-> NoHandGesture,
                         gesture_history |-> gesture_history,
                         stable_gesture |-> stable_gesture,
                         last_click_time |-> last_click_time,
                         last_scroll_time |-> last_scroll_time,
                         keyboard_mode_start |-> keyboard_mode_start]} :
       \E h \in {IF rec.ret # None
                 THEN HandleGesture(rec.ret[1], TRUE, app, cursor, is_active,
                                    activation_start_time, failsafe,
                                    pointer_in_corner, now)
                 ELSE HandleResult(app, cursor, is_active,
                                   activation_start_time, None, "", <<>>)} :
       \E ended_by \in {EndedBy(rd.ret, rd.frame, h.raised, key)} :
       \E cl \in {IF ended_by # ""
                  THEN Cleanup(h.cursor, rd.camera, rd.captures,
                               rd.device_frame, failsafe, pointer_in_corner)
                  ELSE CleanupResult(h.cursor, rd.camera, rd.captures, "",
                                     <<>>)} :
           /\ device_frame' = rd.device_frame
           /\ cam_call' = CamCall("read", Some(rd.ret), rd.frame, rd.touched,
                                  FALSE)
           /\ gesture_history' = rec.gesture_history
           /\ stable_gesture' = rec.stable_gesture
           /\ last_click_time' = rec.last_click_time
           /\ last_scroll_time' = rec.last_scroll_time
           /\ keyboard_mode_start' = rec.keyboard_mode_start
           /\ gr_call' = IF landmarks # None
                         THEN GrCall("recognize", landmarks,
                                     Some(rec.candidate), rec.ret, now)
                         ELSE gr_call
           /\ is_active' = h.is_active
           /\ activation_start_time' = h.activation_start_time
           /\ kb_call' = IF h.update # None
                         THEN KbCall("update", h.update[1].all_fingers_extended,
                                     h.update[1].finger_data, h.update[1].res,
                                     now)
                         ELSE kb_call
           /\ kb_obs' = IF h.update # None
                        THEN KbObsCall(kb_obs, "update",
                                       h.update[1].all_fingers_extended, now)
                        ELSE kb_obs
           /\ cursor' = cl.cursor
           /\ camera' = cl.camera
           /\ captures' = cl.captures
           /\ smoother' = IF ended_by = "" /\ key = "r"
                          THEN PointSmootherReset(smoother) ELSE smoother
           /\ app' = [h.app EXCEPT
                         !.state = IF ended_by # "" THEN "ended" ELSE @,
                         !.is_paused = IF ended_by = "" /\ key = "p"
                                       THEN ~@ ELSE @]
           /\ app_call' = [AppCall("run", cl.raised, ended_by, rec.ret,
                                   cl.effects) EXCEPT !.calls = h.calls]
           /\ app_obs' = IF rd.ret /\ ~app.is_paused
                         THEN AppObsFrame(app_obs, hand, h, now)
                         ELSE app_obs
    /\ UNCHANGED <<cfg_vars, now, in_keyboard_mode, gr_obs, cl_obs, cal_vars,
                   fresh_smoother, other_smoother, sm_call, cam_obs,
                   pointer_in_corner, failsafe>>

\* KeyboardInterrupt in the loop of run(), and cleanup
RunInterrupt ==
    /\ app.state = "running"
    /\ \E cl \in {Cleanup(cursor, camera, captures, device_frame, failsafe,
                          pointer_in_corner)} :
           /\ cursor' = cl.cursor
           /\ camera' = cl.camera
           /\ captures' = cl.captures
           /\ app_call' = AppCall("run", cl.raised, "keyboard_interrupt", None,
                                  cl.effects)
    /\ app' = [app EXCEPT !.state = "ended"]
    /\ UNCHANGED <<cfg_vars, app_obs, now, gr_vars, kb_vars, cal_vars, sm_vars, device_frame,
                   cam_call, cam_obs, pointer_in_corner, failsafe>>

-----------------------------------------------------------------------------
(* Config (config.py).  A dictionary is a function from its keys; the      *)
(* dictionaries nested in a configuration are objects of config_heap, and  *)
(* the configuration holds their places in it, as Python holds references. *)
(* Of the defaults the sections camera and keyboard_shortcuts are kept,    *)
(* with one key each; values are written as strings.                       *)

\* {}
NewDict == [k \in {} |-> ""]

\* the nested dictionaries of Config.DEFAULT_CONFIG as the class statement
\* makes them
DefaultSections ==
    <<[fps_target |-> "30"], [platform |-> "auto"]>>

\* Config.DEFAULT_CONFIG: its sections are the first objects of config_heap
DEFAULT_CONFIG == [camera |-> 1, keyboard_shortcuts |-> 2]

\* sys.platform == 'darwin'
Darwin == FALSE

\* the value of a dictionary of references, each section with its entries:
\* what Config.get returns for the key paths of the configuration
Resolve(config, heap) == [section \in DOMAIN config |-> heap[config[section]]]

\* dict.copy(): a new dictionary with the same references
Copy(config) == config

\* dict[key] = value
DictSet(dict, key, value) ==
    [k \in DOMAIN dict \cup {key} |-> IF k = key THEN value ELSE dict[k]]

ConfigResult(config, heap) == [config |-> config, heap |-> heap]

\* Config.set(section.key, value)
ConfigSet(config, heap, section, key, value) ==
    LET created == section \notin DOMAIN config
        heap1 == IF created THEN Append(heap, NewDict) ELSE heap
        config1 == IF created THEN DictSet(config, section, Len(heap1))
                   ELSE config
        target == config1[section]
    IN  ConfigResult(config1,
                     [heap1 EXCEPT ![target] = DictSet(@, key, value)])

\* Config._deep_merge(base[section], value) for two dictionaries of
\* values that are no dictionaries
MergeSection(dict, value) ==
    [k \in DOMAIN dict \cup DOMAIN value |->
        IF k \in DOMAIN value THEN value[k] ELSE dict[k]]

\* Config._deep_merge(base, update), update being the sequence of the
\* sections of a user configuration, each a pair of its name and its
\* dictionary
RECURSIVE DeepMerge(_, _, _)
DeepMerge(base, heap, update) ==
    IF update = <<>> THEN ConfigResult(base, heap)
    ELSE LET key == update[1][1]
             value == update[1][2]
         IN  IF key \in DOMAIN base
             THEN DeepMerge(base,
                            [heap EXCEPT ![base[key]] = MergeSection(@, value)],
                            Tail(update))
             ELSE DeepMerge(DictSet(base, key, Len(heap) + 1),
                            Append(heap, value), Tail(update))

\* Config.load_from_file(config_path) on a file that yaml.safe_load reads
LoadFromFile(config, heap, user_config) == DeepMerge(config, heap, user_config)

\* Config.__init__(config_path): user_config is None without a path or
\* when no file is there
ConfigInit(heap, user_config) ==
    LET copied == Copy(DEFAULT_CONFIG)
        loaded == IF user_config # None
                  THEN LoadFromFile(copied, heap, user_config[1])
                  ELSE ConfigResult(copied, heap)
        shortcuts == loaded.config["keyboard_shortcuts"]
    IN  IF loaded.heap[shortcuts]["platform"] = "auto"
        THEN ConfigResult(loaded.config,
                 [loaded.heap EXCEPT ![shortcuts] =
                     DictSet(@, "platform",
                             IF Darwin THEN "macos" ELSE "linux")])
        ELSE loaded

\* the configurations constructed, and the user configurations, key paths
\* and values given to them
MaxConfigs == 2
MaxObjects == 4
UserConfigs ==
    {<<<<"camera", [fps_target |-> "60"]>>>>,
     <<<<"custom", [key |-> "1"]>>>>}
KeyPaths == {<<"camera", "fps_target">>, <<"custom", "key">>}
ConfigValues == {"60"}

CfgCall(op, instance) ==
    [op |-> op, instance |-> instance,
     pre |-> [i \in 1..Len(configs) |-> Resolve(configs[i], config_heap)]]

\* Config(config_path)
ConstructConfig(user_config) ==
    /\ Len(configs) < MaxConfigs
    /\ \E res \in {ConfigInit(config_heap, user_config)} :
           /\ Len(res.heap) <= MaxObjects
           /\ config_heap' = res.heap
           /\ configs' = Append(configs, res.config)
    /\ cfg_call' = CfgCall("__init__", Len(configs) + 1)
    /\ UNCHANGED <<now, gr_vars, kb_vars, cal_vars, sm_vars, cam_vars,
                   app_vars>>

\* load_from_file(config_path) on the instance i
LoadFromFileCall(i, user_config) ==
    /\ i \in 1..Len(configs)
    /\ \E res \in {LoadFromFile(configs[i], config_heap, user_config)} :
           /\ Len(res.heap) <= MaxObjects
           /\ config_heap' = res.heap
           /\ configs' = [configs EXCEPT ![i] = res.config]
    /\ cfg_call' = CfgCall("load_from_file", i)
    /\ UNCHANGED <<now, gr_vars, kb_vars, cal_vars, sm_vars, cam_vars,
                   app_vars>>

\* set(key_path, value) on the instance i
SetCall(i, key_path, value) ==
    /\ i \in 1..Len(configs)
    /\ \E res \in {ConfigSet(configs[i], config_heap, key_path[1],
                              key_path[2], value)} :
           /\ Len(res.heap) <= MaxObjects
           /\ config_heap' = res.heap
           /\ configs' = [configs EXCEPT ![i] = res.config]
    /\ cfg_call' = CfgCall("set", i)
    /\ UNCHANGED <<now, gr_vars, kb_vars, cal_vars, sm_vars, cam_vars,
                   app_vars>>

-----------------------------------------------------------------------------
(* The state after construction, and the specifications.                   *)

Init ==
    /\ now = StartTime
    /\ gesture_history = <<>>
    /\ stable_gesture = None
    /\ last_click_time = 0
    /\ last_scroll_time = 0
    /\ keyboard_mode_start = None
    /\ in_keyboard_mode = FALSE
    /\ gr_call = [op |-> "__init__", landmarks |-> None, candidate |-> None,
                  ret |-> None, time |-> StartTime,
                  pre_history_len |-> 0, pre_keyboard_mode_start |-> None,
                  pre_last_click_time |-> 0, pre_last_scroll_time |-> 0]
    /\ gr_obs = ObsInit
    /\ cl_obs = ClsObsInit
    /\ is_active = FALSE
    /\ activation_start_time = None
    /\ kb_call = [op |-> "__init__", all_fingers_extended |-> FALSE,
                  finger_data |-> EmptyDict, ret |-> None, feedback |-> <<>>,
                  time |-> StartTime, pre_is_active |-> FALSE,
                  pre_activation_start_time |-> None]
    /\ kb_obs = KbObsInit
    /\ calibrator = NewCalibrator(1920, 1080)
    /\ calibration_file = None
    /\ cal_call = [op |-> "__init__", ret |-> None, sample |-> None,
                   pre_state |-> "WAITING", pre_index |-> 0]
    /\ cal_obs = CalObsInit
    /\ smoother = PointSmoother("one_euro")
    /\ fresh_smoother = PointSmoother("one_euro")
    /\ other_smoother = PointSmoother("one_euro")
    /\ sm_call = [op |-> "__init__", point |-> None, other_point |-> None,
                  ret |-> None, fresh_ret |-> None, other_ret |-> None,
                  calls |-> 0, varied |-> 2, time |-> StartTime,
                  pre |-> PointSmoother("one_euro")]
    /\ camera = NewCamera
    /\ captures = <<>>
    /\ device_frame = 0
    /\ cam_call = [op |-> "__init__", ret |-> None, frame |-> None,
                   touched |-> FALSE, raised |-> FALSE, pre |-> NewCamera,
                   pre_device_frame |-> 0]
    /\ cam_obs = CamObsInit
    /\ app = NoHandControlApp
    /\ cursor = NewCursor
    /\ pointer_in_corner = FALSE
    /\ failsafe = TRUE
    /\ app_call = [op |-> "", raised |-> "", ended_by |-> "", handled |-> None,
                   effects |-> <<>>, pre_failsafe |-> TRUE, calls |-> <<>>,
                   time |-> StartTime, pre_dragging |-> FALSE]
    /\ app_obs = AppObsInit
    /\ config_heap = DefaultSections
    /\ configs = <<>>
    /\ cfg_call = [op |-> "", instance |-> 0, pre |-> <<>>]

\* the recognizer fed the frames of a pointing session
NextDebounce ==
    \/ \E d \in HoldDeltas : Tick(d, Horizon)
    \/ \E landmarks \in PointingHands : ProcessLandmarks(landmarks)
    \/ ProcessNoHand
    \/ Reset

SpecDebounce == Init /\ [][NextDebounce]_vars

\* the recognizer fed the frames of a clicking session
NextCooldown ==
    \/ \E d \in ClickDeltas : Tick(d, ClickHorizon)
    \/ \E landmarks \in ClickingHands : ProcessLandmarks(landmarks)
    \/ ProcessNoHand
    \/ Reset

SpecCooldown == Init /\ [][NextCooldown]_vars

\* the classifier called on single skeletons
NextClassifier ==
    \/ Tick(KeyboardHoldMs, Horizon)
    \/ \E landmarks \in Hands : Recognize(landmarks)

SpecClassifier == Init /\ [][NextClassifier]_vars

\* the classifier called on the frames of a hand changing its pose
PoseHands ==
    {MoveHand, ScrollHand, ScrollHandRaised, DragHand, AllFingersHand, FistHand}

NextPoses ==
    \/ \E d \in HoldDeltas : Tick(d, Horizon)
    \/ \E landmarks \in PoseHands : Recognize(landmarks)

SpecPoses == Init /\ [][NextPoses]_vars

\* the keyboard mode
NextKeyboard ==
    \/ \E d \in HoldDeltas \cup ClickDeltas : Tick(d, Horizon)
    \/ \E a \in BOOLEAN, fd \in FingerData : Update(a, fd)
    \/ ForceExit

SpecKeyboard == Init /\ [][NextKeyboard]_vars

\* calibration sessions, with the calibration saved and loaded again
NextCalibration ==
    \/ \E r \in Resolutions : Construct(r[1], r[2])
    \/ StartCalibration
    \/ \E sample \in Samples : CapturePoint(sample[1], sample[2])
    \/ Cancel
    \/ \E filepath \in Paths : SaveCalibration(filepath)
    \/ \E filepath \in Paths : LoadCalibration(filepath)
    \/ RemoveFile

SpecCalibration == Init /\ [][NextCalibration]_vars

\* the calibrator loading the files it finds
NextCalibrationFiles ==
    \/ \E r \in Resolutions : Construct(r[1], r[2])
    \/ StartCalibration
    \/ \E sample \in FileSamples : CapturePoint(sample[1], sample[2])
    \/ Cancel
    \/ \E filepath \in Paths : SaveCalibration(filepath)
    \/ \E filepath \in Paths : LoadCalibration(filepath)
    \/ \E name \in FileNames : WriteFile(name)
    \/ RemoveFile

SpecCalibrationFiles == Init /\ [][NextCalibrationFiles]_vars

\* the steps by which the clock advances between two frames, and how far it
\* runs in a smoothing session
FrameDeltas == {33, 100}
SmoothHorizon == 133

\* the point smoother given points and reset
NextSmoothing ==
    \/ \E d \in FrameDeltas : Tick(d, SmoothHorizon)
    \/ \E smoother_type \in SmootherTypes, varied \in Axes :
           ConstructSmoother(smoother_type, varied)
    \/ \E x \in Coordinates, y \in Coordinates, other \in OtherCoordinates :
           Filter(x, y, other)
    \/ ResetSmoother

SpecSmoothing == Init /\ [][NextSmoothing]_vars

\* the camera opened, read and closed by its caller
NextCamera ==
    \/ ConstructCamera
    \/ \E outcome \in OpenOutcomes : Open(outcome)
    \/ \E delivered \in BOOLEAN : Read(delivered)
    \/ Close
    \/ \E outcome \in OpenOutcomes : Enter(outcome)
    \/ Exit
    \/ Del

SpecCamera == Init /\ [][NextCamera]_vars

\* the application constructed and run, after its components or a camera
\* have been used on their own
NextApp ==
    \/ Tick(500, AppHorizon)
    \/ DisableFailsafe
    \/ \E corner \in BOOLEAN : MovePointer(corner)
    \/ ConstructKeyboardMode
    \/ ConstructCursorController
    \/ \E outcome \in OpenOutcomes : Open(outcome)
    \/ \E delivered \in BOOLEAN : Read(delivered)
    \/ \E outcome \in OpenOutcomes, preview \in BOOLEAN :
           ConstructApp(outcome, preview)
    \/ Run
    \/ \E delivered \in BOOLEAN, hand \in AppHands, key \in Keys :
           RunIteration(delivered, hand, key)
    \/ RunInterrupt

SpecApp == Init /\ [][NextApp]_vars

\* the hands shown to an application that is scrolled
ScrollHands == {Some(ScrollHand), Some(ScrollHandRaised)}

\* the application run in front of a scrolling hand
NextScroll ==
    \/ Tick(500, AppHorizon)
    \/ \E outcome \in OpenOutcomes, preview \in BOOLEAN :
           ConstructApp(outcome, preview)
    \/ Run
    \/ \E delivered \in BOOLEAN, hand \in ScrollHands, key \in Keys :
           RunIteration(delivered, hand, key)
    \/ RunInterrupt

SpecScroll == Init /\ [][NextScroll]_vars

\* configurations constructed, loaded and set
NextConfig ==
    \/ \E d \in FrameDeltas : Tick(d, SmoothHorizon)
    \/ \E user_config \in {None} \cup {Some(u) : u \in UserConfigs} :
           ConstructConfig(user_config)
    \/ \E i \in 1..MaxConfigs, user_config \in UserConfigs :
           LoadFromFileCall(i, user_config)
    \/ \E i \in 1..MaxConfigs, key_path \in KeyPaths, value \in ConfigValues :
           SetCall(i, key_path, value)

SpecConfig == Init /\ [][NextConfig]_vars

\* the drag methods called on cursor controllers
NextCursor ==
    \/ Tick(500, AppHorizon)
    \/ DisableFailsafe
    \/ \E corner \in BOOLEAN : MovePointer(corner)
    \/ ConstructCursorController
    \/ \E op \in DragOps : DragCall(op)

SpecCursor == Init /\ [][NextCursor]_vars

\* gestures handed to the handler of a constructed application
NextHandler ==
    \/ \E d \in ClickDeltas : Tick(d, ClickHorizon)
    \/ \E corner \in BOOLEAN : MovePointer(corner)
    \/ \E outcome \in OpenOutcomes, preview \in BOOLEAN :
           ConstructApp(outcome, preview)
    \/ \E gesture \in HandlerGestures : HandleGestureCall(gesture)

SpecHandler == Init /\ [][NextHandler]_vars

-----------------------------------------------------------------------------
(* Properties.                                                             *)

HandFrame == gr_call.op = "process_landmarks" /\ gr_call.landmarks # None
NoHandFrame == gr_call.op = "process_landmarks" /\ gr_call.landmarks = None

\* C1: process_landmarks returns a command for a hand only when
\* stability_frames consecutive candidates of one type have been seen since
\* construction, reset() or the last frame without a hand; the window is then
\* full and every entry of it has the type of the command returned.
C1_NoCommandBeforeStable ==
    (HandFrame /\ gr_call.ret # None) =>
        /\ gr_obs.streak >= StabilityFrames
        /\ Len(gesture_history) = StabilityFrames
        /\ \A k \in 1..Len(gesture_history) :
               gesture_history[k].gesture_type = gr_call.ret[1].gesture_type
        /\ gr_call.ret[1].gesture_type = gr_obs.streak_type

\* a command returned on the very frame that completes the run
C1_Witness ==
    /\ HandFrame
    /\ gr_call.ret # None
    /\ gr_obs.streak = StabilityFrames
    /\ gr_call.pre_history_len = StabilityFrames

\* C2: once a MOVE, DRAG or KEYBOARD pose has been stable for more than
\* stability_frames frames, a further frame of it returns no further command.
C2_OneCommandPerWindow ==
    (/\ HandFrame
     /\ gr_obs.streak > StabilityFrames
     /\ gr_obs.streak_type \in {"MOVE", "DRAG", "KEYBOARD"})
        => gr_call.ret = None

\* C3: a click-family command is returned only when at least cooldown_click_ms
\* have passed since the last click-family command returned, whatever the
\* types of the two; and a click-family pose stable over the window is
\* returned as soon as that time has passed, the boundary included.
C3_ClickCooldown ==
    (HandFrame /\ gr_call.candidate[1].gesture_type \in ClickTypes) =>
        LET elapsed == gr_call.time - gr_obs.prev_click_emit[1]
            cooled == gr_obs.prev_click_emit = None \/ elapsed >= CooldownClickMs
        IN  /\ gr_call.ret # None => cooled
            /\ (gr_obs.streak >= StabilityFrames /\ cooled)
                   => gr_call.ret = gr_call.candidate

\* a click command returned exactly cooldown_click_ms after the last one
C3_Witness ==
    /\ HandFrame
    /\ gr_call.ret # None
    /\ gr_call.ret[1].gesture_type \in ClickTypes
    /\ gr_obs.prev_click_emit # None
    /\ gr_call.time - gr_obs.prev_click_emit[1] = CooldownClickMs

\* C4: process_landmarks(None) empties the window, clears the keyboard hold
\* timer and returns an IDLE candidate of confidence 0; it leaves both
\* cooldown timers as they were; and a command after it needs
\* stability_frames fresh identical frames.
C4_NoHandClears ==
    /\ NoHandFrame =>
        /\ gesture_history = <<>>
        /\ keyboard_mode_start = None
        /\ gr_call.ret # None
        /\ gr_call.ret[1].gesture_type = "IDLE"
        /\ gr_call.ret[1].confidence = 0
        /\ last_click_time = gr_call.pre_last_click_time
        /\ last_scroll_time = gr_call.pre_last_scroll_time
        /\ gr_obs.streak = 0
    /\ (HandFrame /\ gr_call.ret # None) => gr_obs.streak >= StabilityFrames

\* a frame without a hand arriving on a filled window, with the keyboard hold
\* timer running and both cooldown timers set
C4_Witness ==
    /\ NoHandFrame
    /\ gr_call.pre_history_len = StabilityFrames
    /\ gr_call.pre_keyboard_mode_start # None
    /\ gr_call.pre_last_click_time > 0
    /\ gr_call.pre_last_scroll_time > 0

UpdateCall(extended) ==
    kb_call.op = "update" /\ kb_call.all_fingers_extended = extended

\* C5: in a run of update(True) calls begun while not active, the first call
\* starts the timer without activating, and the mode is active after a call
\* exactly when the run has lasted at least hold_time at that call; update(True)
\* on an active mode leaves it active, returns nothing, starts no timer and
\* sends no notification.
C5_ActivationIdempotent ==
    /\ (UpdateCall(TRUE) /\ ~kb_call.pre_is_active) =>
        /\ kb_call.ret = None
        /\ kb_obs.prev_hold_start = None =>
               ~is_active /\ activation_start_time = Some(kb_call.time)
        /\ is_active <=>
               /\ kb_obs.prev_hold_start # None
               /\ kb_call.time - kb_obs.prev_hold_start[1] >= HoldTimeMs
        /\ is_active =>
               Len(SelectSeq(kb_call.feedback,
                             LAMBDA f : f.event = "keyboard_active")) = 1
    /\ (UpdateCall(TRUE) /\ kb_call.pre_is_active) =>
        /\ is_active
        /\ kb_call.ret = None
        /\ activation_start_time = None
        /\ kb_call.feedback = <<>>

\* the mode activated by a call made exactly hold_time into the run
C5_Witness ==
    /\ UpdateCall(TRUE)
    /\ ~kb_call.pre_is_active
    /\ is_active
    /\ kb_obs.prev_hold_start # None
    /\ kb_call.time - kb_obs.prev_hold_start[1] = HoldTimeMs

FingerCountOf(finger_data) == Get(finger_data, "finger_count", 0)
ThumbOf(finger_data) == Get(finger_data, "thumb_extended", FALSE)

\* C6: on an active mode, update(False) with 1, 2, 3 or 4 fingers or the thumb
\* only returns ESCAPE, ENTER, COPY, PASTE or APP_SWITCH and leaves the mode
\* inactive with no timer; a shortcut is returned only by a call that finds
\* the mode active and leaves it inactive.
C6_ShortcutExits ==
    /\ (UpdateCall(FALSE) /\ kb_call.pre_is_active) =>
        LET n == FingerCountOf(kb_call.finger_data)
            exited == ~is_active /\ activation_start_time = None
        IN  /\ n = 1 => kb_call.ret = Some("ESCAPE") /\ exited
            /\ n = 2 => kb_call.ret = Some("ENTER") /\ exited
            /\ n = 3 => kb_call.ret = Some("COPY") /\ exited
            /\ n = 4 => kb_call.ret = Some("PASTE") /\ exited
            /\ (n = 0 /\ ThumbOf(kb_call.finger_data)) =>
                   kb_call.ret = Some("APP_SWITCH") /\ exited
    /\ kb_call.ret # None =>
        /\ UpdateCall(FALSE)
        /\ kb_call.pre_is_active
        /\ ~is_active

\* the thumb alone shown to an active mode
C6_Witness ==
    /\ UpdateCall(FALSE)
    /\ kb_call.pre_is_active
    /\ kb_call.ret = Some("APP_SWITCH")
    /\ ~is_active

\* C7: on an active mode, update(False) with a pattern that resolves to no
\* shortcut leaves the mode inactive.
C7_NoShortcutStillExits ==
    (UpdateCall(FALSE) /\ kb_call.pre_is_active /\ kb_call.ret = None)
        => ~is_active

\* C8: no shortcut is resolved for 5 fingers, for no finger without the thumb
\* and for 1 finger with the thumb extended.
C8_UnmappedPatternsResolveNothing ==
    (UpdateCall(FALSE) /\ kb_call.pre_is_active) =>
        LET n == FingerCountOf(kb_call.finger_data)
            thumb == ThumbOf(kb_call.finger_data)
        IN  (n = 5 \/ (n = 0 /\ ~thumb) \/ (n = 1 /\ thumb))
                => kb_call.ret = None

\* C9: update(False) during activation clears the timer and leaves the mode
\* inactive; and a call activates the mode only hold_time or more after the
\* first update(True) that followed the last interruption.
C9_ContinuousHold ==
    /\ (/\ UpdateCall(FALSE)
        /\ ~kb_call.pre_is_active
        /\ kb_call.pre_activation_start_time # None)
           => activation_start_time = None /\ ~is_active
    /\ (~kb_call.pre_is_active /\ is_active) =>
        /\ kb_obs.prev_hold_start # None
        /\ kb_call.time - kb_obs.prev_hold_start[1] >= HoldTimeMs
    /\ (~is_active /\ activation_start_time # None) =>
           activation_start_time = kb_obs.hold_start

\* an activation interrupted after some of the hold time has passed
C9_Witness ==
    /\ UpdateCall(FALSE)
    /\ ~kb_call.pre_is_active
    /\ kb_call.pre_activation_start_time # None
    /\ kb_call.time > kb_call.pre_activation_start_time[1]
    /\ activation_start_time = None

\* the index finger alone is extended: its tip is above its PIP joint by more
\* than finger_threshold times the hand size, and no other finger is
OnlyIndexExtended(landmarks) ==
    FingersExtended(landmarks) = [f \in 1..5 |-> f = 2]

\* C10: a skeleton with the index finger alone extended is classified MOVE,
\* with the coordinates of the index tip, landmark 8, as cursor position.
C10_MoveHasIndexTip ==
    (/\ gr_call.op = "_recognize_gesture"
     /\ OnlyIndexExtended(gr_call.landmarks[1])) =>
        /\ gr_call.ret # None
        /\ gr_call.ret[1].gesture_type = "MOVE"
        /\ gr_call.ret[1].data.cursor_pos = gr_call.landmarks[1][8]

\* the index finger alone extended, its tip away from its other joints
C10_Witness ==
    /\ gr_call.op = "_recognize_gesture"
    /\ OnlyIndexExtended(gr_call.landmarks[1])
    /\ gr_call.ret[1].gesture_type = "MOVE"
    /\ gr_call.landmarks[1][8] # gr_call.landmarks[1][6]

-----------------------------------------------------------------------------
(* Properties of the classification of one frame.                          *)

ClassifyCall == gr_call.op = "_recognize_gesture"
CallHand == gr_call.landmarks[1]
CallType == gr_call.ret[1].gesture_type

\* the distance between landmarks a and b is below pinch_threshold times the
\* hand size
CloserThanPinch(h, a, b) ==
    10000 * EuclideanDistanceSq(h[a], h[b])
        < PinchThresholdPct * PinchThresholdPct * HandSizeSq(h)

\* index and middle extended, ring and pinky not
TwoFingerPose(h) ==
    LET e == FingersExtended(h) IN e[2] /\ e[3] /\ ~e[4] /\ ~e[5]

ExtendedCount(h) == Cardinality({f \in 1..5 : FingersExtended(h)[f]})

\* C11 as stated: a skeleton with index and middle extended, ring and pinky
\* not, is classified LEFT_CLICK when the two tips are closer than
\* pinch_threshold times the hand size, and SCROLL otherwise.
C11_PinchClickElseScroll ==
    (ClassifyCall /\ TwoFingerPose(CallHand)) =>
        CallType = IF CloserThanPinch(CallHand, INDEX_TIP, MIDDLE_TIP)
                   THEN "LEFT_CLICK" ELSE "SCROLL"

\* C11 as amended: such a skeleton is classified LEFT_CLICK when the two tips
\* are closer than pinch_threshold times the hand size; otherwise it is
\* classified DOUBLE_CLICK when the thumb and index tips are that close, and
\* SCROLL when they are not.
C11_PinchClickElseDoubleClickElseScroll ==
    (ClassifyCall /\ TwoFingerPose(CallHand)) =>
        CallType = IF CloserThanPinch(CallHand, INDEX_TIP, MIDDLE_TIP)
                   THEN "LEFT_CLICK"
                   ELSE IF CloserThanPinch(CallHand, THUMB_TIP, INDEX_TIP)
                   THEN "DOUBLE_CLICK"
                   ELSE "SCROLL"

\* the two tips exactly pinch_threshold times the hand size apart: SCROLL
C11_Witness ==
    /\ ClassifyCall
    /\ TwoFingerPose(CallHand)
    /\ 10000 * EuclideanDistanceSq(CallHand[INDEX_TIP], CallHand[MIDDLE_TIP])
           = PinchThresholdPct * PinchThresholdPct * HandSizeSq(CallHand)
    /\ CallType = "SCROLL"

\* the first rule of the ordered list that matches the flags e of the fingers
\* extended and the two pinch predicates
FirstMatchingRule(e, index_middle_pinch, thumb_index_pinch) ==
    IF e = <<FALSE, TRUE, FALSE, FALSE, FALSE>> THEN "MOVE"
    ELSE IF e[2] /\ e[3] /\ ~e[4] /\ ~e[5] /\ index_middle_pinch
    THEN "LEFT_CLICK"
    ELSE IF e[2] /\ e[3] /\ e[4] /\ ~e[5] /\ index_middle_pinch
    THEN "RIGHT_CLICK"
    ELSE IF thumb_index_pinch THEN "DOUBLE_CLICK"
    ELSE IF e[2] /\ e[3] /\ ~e[4] /\ ~e[5] THEN "SCROLL"
    ELSE IF e = <<TRUE, FALSE, FALSE, FALSE, FALSE>> THEN "DRAG"
    ELSE "IDLE"

\* C12: with at least one finger and not all five extended, the type of the
\* candidate is the first matching rule of MOVE, LEFT_CLICK, RIGHT_CLICK,
\* DOUBLE_CLICK, SCROLL, DRAG, IDLE; and an IDLE candidate carries the number
\* of fingers extended.
C12_FirstMatchWins ==
    (ClassifyCall /\ ExtendedCount(CallHand) \in 1..4) =>
        LET e == FingersExtended(CallHand)
            flags == <<e[1], e[2], e[3], e[4], e[5]>>
        IN  /\ CallType =
                   FirstMatchingRule(flags,
                       CloserThanPinch(CallHand, INDEX_TIP, MIDDLE_TIP),
                       CloserThanPinch(CallHand, THUMB_TIP, INDEX_TIP))
            /\ CallType = "IDLE" =>
                   gr_call.ret[1].data =
                       [extended_fingers |-> ExtendedCount(CallHand)]

\* both pinches at once with index, middle and ring extended: RIGHT_CLICK
\* comes before DOUBLE_CLICK
C12_Witness ==
    /\ ClassifyCall
    /\ ExtendedCount(CallHand) \in 1..4
    /\ CloserThanPinch(CallHand, INDEX_TIP, MIDDLE_TIP)
    /\ CloserThanPinch(CallHand, THUMB_TIP, INDEX_TIP)
    /\ CallType = "RIGHT_CLICK"

\* C16: scaling every landmark of the skeleton classified by a factor leaves
\* the flags of the fingers extended, the two pinch results and the type of
\* the candidate as they are.
C16_ScaleInvariant ==
    ClassifyCall =>
        \A k \in Scales :
            LET scaled == ScaleHand(CallHand, k)
                hs == HandSizeSq(CallHand)
                scaled_hs == HandSizeSq(scaled)
            IN  /\ FingersExtended(scaled) = FingersExtended(CallHand)
                /\ DetectPinch(scaled, INDEX_TIP, MIDDLE_TIP, scaled_hs)
                       = DetectPinch(CallHand, INDEX_TIP, MIDDLE_TIP, hs)
                /\ DetectPinch(scaled, THUMB_TIP, INDEX_TIP, scaled_hs)
                       = DetectPinch(CallHand, THUMB_TIP, INDEX_TIP, hs)
                /\ RecognizeGesture(scaled, gr_call.pre_keyboard_mode_start,
                                    gr_call.time).gesture.gesture_type
                       = CallType

\* a pinch whose tips, on the scaled hand, are farther apart than
\* pinch_threshold times the size of the hand classified
C16_Witness ==
    /\ ClassifyCall
    /\ CallType = "LEFT_CLICK"
    /\ \E k \in Scales :
           10000 * EuclideanDistanceSq(ScaleHand(CallHand, k)[INDEX_TIP],
                                       ScaleHand(CallHand, k)[MIDDLE_TIP])
               >= PinchThresholdPct * PinchThresholdPct * HandSizeSq(CallHand)

-----------------------------------------------------------------------------
(* Properties of the classification of successive frames.                  *)

\* how long all five fingers have been extended on every frame classified,
\* at the last call
HeldOpen == gr_call.time - cl_obs.hold_start[1]

\* C13 as stated: with all five fingers extended the candidate is KEYBOARD
\* exactly when all five have been extended on every frame classified for at
\* least keyboard_hold_time, and otherwise IDLE tagged building_keyboard with
\* the remaining time in its payload; a frame with not all fingers extended
\* clears the hold timer.
C13_KeyboardAfterHoldWithRemaining ==
    /\ (ClassifyCall /\ cl_obs.last_open) =>
           IF HeldOpen >= KeyboardHoldMs
           THEN CallType = "KEYBOARD"
           ELSE /\ CallType = "IDLE"
                /\ Get(gr_call.ret[1].data, "building_keyboard", FALSE)
                /\ "remaining" \in DOMAIN gr_call.ret[1].data
                /\ gr_call.ret[1].data.remaining = KeyboardHoldMs - HeldOpen
    /\ (ClassifyCall /\ ~cl_obs.last_open) =>
           keyboard_mode_start = None /\ CallType # "KEYBOARD"

\* C13 as amended: the same, the payload of the IDLE candidate being the tag
\* building_keyboard alone.
C13_KeyboardAfterHold ==
    /\ (ClassifyCall /\ cl_obs.last_open) =>
           IF HeldOpen >= KeyboardHoldMs
           THEN CallType = "KEYBOARD"
           ELSE /\ CallType = "IDLE"
                /\ gr_call.ret[1].data = [building_keyboard |-> TRUE]
    /\ (ClassifyCall /\ ~cl_obs.last_open) =>
           keyboard_mode_start = None /\ CallType # "KEYBOARD"

\* an open hand still building: it was interrupted keyboard_hold_time or more
\* after the timer that the interruption cleared had been started
C13_WitnessRestart ==
    /\ ClassifyCall
    /\ cl_obs.last_open
    /\ CallType = "IDLE"
    /\ gr_call.pre_keyboard_mode_start = None
    /\ cl_obs.seen_open
    /\ gr_call.time - StartTime >= KeyboardHoldMs

\* KEYBOARD returned exactly keyboard_hold_time into the hold
C13_Witness ==
    /\ ClassifyCall
    /\ CallType = "KEYBOARD"
    /\ HeldOpen = KeyboardHoldMs

\* C14: a SCROLL candidate that follows a SCROLL frame carries scroll_delta,
\* 100 times the rise of the fingertip midpoint since that frame (positive
\* when the midpoint moves up); the first SCROLL candidate after a frame
\* that was not a SCROLL carries no scroll_delta.
C14_ScrollCarriesDelta ==
    (ClassifyCall /\ CallType = "SCROLL") =>
        LET data == gr_call.ret[1].data
        IN  IF cl_obs.prev_scroll = None
            THEN "scroll_delta" \notin DOMAIN data
            ELSE /\ "scroll_delta" \in DOMAIN data
                 /\ 4 * data.scroll_delta
                        = cl_obs.prev_scroll[1] - cl_obs.last_scroll[1]

\* C15: a fist classified right after a frame with the hand open is GRAB; a
\* candidate is GRAB only for such a frame; and a fist with no open hand
\* before it is IDLE.
C15_GrabOnOpenToFist ==
    /\ (ClassifyCall /\ ExtendedCount(CallHand) = 0 /\ cl_obs.prev_open) =>
           CallType = "GRAB"
    /\ (ClassifyCall /\ CallType = "GRAB") =>
           ExtendedCount(CallHand) = 0 /\ cl_obs.prev_open
    /\ (ClassifyCall /\ ExtendedCount(CallHand) = 0 /\ ~cl_obs.seen_open) =>
           CallType = "IDLE"

-----------------------------------------------------------------------------
(* The calibration session.                                                *)

TargetNames == <<"Top Left", "Top Right", "Bottom Right", "Bottom Left">>

FiveTargetNames == Append(TargetNames, "Center")

\* the number of points captured since start_calibration
SessionCaptures == cal_obs.session[1]

PointNames(c) == [k \in 1..Len(c.points) |-> c.points[k].name]

-----------------------------------------------------------------------------
(* Saving and loading the calibration.                                     *)

\* load_calibration has just read the file as save_calibration wrote it
LoadedTheSavedFile ==
    /\ cal_call.op = "load_calibration"
    /\ cal_obs.saved # None

SavedCalibrator == cal_obs.saved[1]

RoundTrip ==
    /\ cal_call.ret = Some(TRUE)
    /\ calibrator.points = SavedCalibrator.points
    /\ \A k \in 1..Len(calibrator.points) :
           /\ calibrator.points[k].is_captured
           /\ ToDict(calibrator.points[k]) = calibration_file[1].data.points[k]
    /\ calibrator.screen_width = SavedCalibrator.screen_width
    /\ calibrator.screen_height = SavedCalibrator.screen_height
    /\ IsComplete(calibrator)

-----------------------------------------------------------------------------
(* Loading the records of other writers.                                   *)

\* the last call was a load_calibration that read the file of this name
LoadRead(name) ==
    /\ cal_call.op = "load_calibration"
    /\ cal_obs.read = Some(name)

\* the point is the one the entry of a record describes
PointOfDict(point, data) ==
    /\ point.name = data.name
    /\ point.screen_x = data.screen[1]
    /\ point.screen_y = data.screen[2]
    /\ point.is_captured = data.captured
    /\ point.camera_x = Some(data.camera[1])
    /\ point.camera_y = Some(data.camera[2])

MalformedNames ==
    {"three_points", "no_points", "invalid_json", "point_without_captured",
     "resolution_of_one", "resolution_of_strings"}

\* C20: load_calibration on a missing file or on malformed data (invalid
\* JSON, no points, a wrong number of points, a malformed point or screen
\* resolution) returns False, and a calibrator that was not complete is not
\* complete afterwards.
C20_MalformedLoadReturnsFalse ==
    (/\ cal_call.op = "load_calibration"
     /\ cal_obs.read # None
     /\ cal_obs.read[1] \in MalformedNames \cup {"missing"}) =>
        /\ cal_call.ret = Some(FALSE)
        /\ cal_call.pre_state # "COMPLETE" => ~IsComplete(calibrator)

-----------------------------------------------------------------------------
(* Saving an incomplete calibration.                                       *)

\* C21: a save_calibration in a state where is_complete() is false (not
\* started, partially captured, cancelled) returns False and leaves the file
\* as it was.
C21_SaveRefusesIncomplete ==
    [][(/\ \E filepath \in Paths : SaveCalibration(filepath)
        /\ ~IsComplete(calibrator))
       => /\ cal_call'.ret = Some(FALSE)
          /\ calibration_file' = calibration_file
          /\ calibrator' = calibrator]_vars

\* a cancelled calibrator with two points captured was refused, with the
\* path that has a directory part, while the file of an earlier calibration
\* is there, and the file is still as it was saved
C21_Witness ==
    /\ cal_call.op = "save_calibration"
    /\ cal_call.ret = Some(FALSE)
    /\ cal_call.pre_state = "CANCELLED"
    /\ cal_call.pre_index = 2
    /\ ~IsComplete(calibrator)
    /\ cal_obs.saved # None
    /\ calibration_file # None

-----------------------------------------------------------------------------
(* The smoothers.                                                          *)

FilterCall == sm_call.op = "filter"

\* C22: the first filter call after construction or after reset() returns its
\* input unchanged, on either axis and for either kind of smoother; and every
\* filter call returns what a smoother constructed at the time of the last
\* reset(), and given the same calls since, returns.
C22_FirstCallUnchangedResetForgets ==
    FilterCall =>
        /\ sm_call.calls = 1 => sm_call.ret = sm_call.point
        /\ sm_call.ret = sm_call.fresh_ret

\* a smoother that has smoothed, and was reset, returns the first point
\* unchanged; the smoothing factors of its low-pass filters are still those
\* of the calls before the reset
C22_Witness ==
    /\ FilterCall
    /\ sm_call.calls = 1
    /\ sm_call.ret = sm_call.point
    /\ sm_call.point = Some(<<960, 0>>)
    /\ smoother.smoother_type = "one_euro"
    /\ smoother.x_smoother.x_filter.alpha # fresh_smoother.x_smoother.x_filter.alpha
    /\ smoother.x_smoother.prev_value = fresh_smoother.x_smoother.prev_value

\* C23: the coordinate that the smoother returns on an axis is the one it
\* returns when the other coordinates of the points, on this call and on all
\* calls before, are different.
C23_AxesIndependent ==
    FilterCall =>
        \A axis \in Axes :
            axis # sm_call.varied => sm_call.ret[1][axis] = sm_call.other_ret[1][axis]

\* two smoothers given the same x and different y return the same smoothed x,
\* which is not the x given, and different y
C23_Witness ==
    /\ FilterCall
    /\ sm_call.varied = 2
    /\ sm_call.calls >= 3
    /\ sm_call.ret[1][1] = sm_call.other_ret[1][1]
    /\ sm_call.ret[1][1] # sm_call.point[1][1]
    /\ sm_call.ret[1][2] # sm_call.other_ret[1][2]



(* ---------------------------------------------------------------------- *)
(* The camera.                                                             *)
(* ---------------------------------------------------------------------- *)

CloseOps == {"close", "__exit__", "__del__"}

\* C24: closing is idempotent and the device handle is released exactly
\* once: no VideoCapture is released twice over open-failure cleanup,
\* close(), the exit of a with statement and __del__; the VideoCapture of
\* a successful open that the camera holds when it is torn down has been
\* released once; closing a camera that is not opened leaves it as it was;
\* and read() on a camera that is not opened returns no frame without
\* touching the device.
C24_ReleasedExactlyOnce ==
    /\ \A k \in 1..Len(captures) : captures[k].releases <= 1
    /\ (cam_obs.torn_down /\ camera.cap # None
           /\ captures[camera.cap[1]].opened)
          => captures[camera.cap[1]].releases = 1
    /\ (cam_call.op \in CloseOps /\ ~cam_call.pre.is_opened)
          => camera = cam_call.pre
    /\ (cam_call.op = "read" /\ ~cam_call.pre.is_opened)
          => /\ cam_call.ret = Some(FALSE)
             /\ cam_call.frame = None
             /\ ~cam_call.touched
             /\ device_frame = cam_call.pre_device_frame

OpenOps == {"open", "__enter__"}

FailedFramePass ==
    \E hand \in AppHands, key \in Keys : RunIteration(FALSE, hand, key)

\* a failed frame read changes no smoother state, no debounce window, no
\* cooldown timer and no keyboard hold
FailedFrameChangesNoFilter ==
    /\ UNCHANGED <<smoother, gesture_history, stable_gesture, last_click_time,
                   last_scroll_time, keyboard_mode_start, is_active,
                   activation_start_time>>
    /\ app'.last_click_time = app.last_click_time
    /\ app'.last_scroll_time = app.last_scroll_time
    /\ app'.is_paused = app.is_paused

C27_NoStuckDragAtExit ==
    app.state = "ended"
      => /\ ~cursor.is_dragging
         /\ ~cursor.button_down
         /\ app_call.effects \in {<<"close">>, <<"mouseUp", "close">>}

\* the constructors of the components that drive pyautogui
Constructs ==
    \/ ConstructKeyboardMode
    \/ ConstructCursorController
    \/ \E outcome \in OpenOutcomes, preview \in BOOLEAN :
           ConstructApp(outcome, preview)

\* C28: the fail-safe is always enabled: pyautogui.FAILSAFE is True after
\* the construction of a KeyboardMode, of a CursorController and of a
\* HandControlApp, whatever it was before, and no operation of these
\* components sets it to False: it is True as long as an application
\* exists, and only code outside the components turns it off.
C28_FailsafeAlwaysEnabled ==
    /\ [](app.state # "none" => failsafe)
    /\ [][/\ Constructs => failsafe'
          /\ (failsafe /\ ~failsafe') => DisableFailsafe]_vars

\* a KeyboardMode has been constructed with pyautogui.FAILSAFE False
C28_Witness ==
    /\ app_call.op = "KeyboardMode"
    /\ ~app_call.pre_failsafe
    /\ failsafe

\* C30: a stable KEYBOARD gesture drives the keyboard mode toward Active:
\* when the gesture handler has handled a KEYBOARD gesture in a pass of the
\* loop, it has called KeyboardMode.update with all_fingers_extended True.
C30_KeyboardGestureHoldsKeyboardMode ==
    (/\ app_call.op = "run"
     /\ app_call.handled # None
     /\ app_call.handled[1].gesture_type = "KEYBOARD"
     /\ app_call.ended_by = "")
      => /\ kb_call.op = "update"
         /\ kb_call.all_fingers_extended

\* the rise of the fingertip midpoint between the last two frames of the
\* stability window, doubled
ScrollRise ==
    gesture_history[2].data.scroll_y_x2 - gesture_history[3].data.scroll_y_x2

\* C31: when a pass of the loop has handled a stable SCROLL gesture whose
\* fingertip midpoint moved vertically since the frame before, the handler
\* has dispatched one scroll in the direction of the movement (up for a
\* rise, down for a fall), unless a scroll dispatched before is still in
\* its cooldown.
C31_ScrollDispatched ==
    (/\ app_call.op = "run"
     /\ app_call.handled # None
     /\ app_call.handled[1].gesture_type = "SCROLL"
     /\ ScrollRise # 0)
      => \/ app_call.calls
               = <<IF ScrollRise > 0 THEN "scroll(1)" ELSE "scroll(-1)">>
         \/ app.last_scroll_time # 0 /\ app_call.calls = <<>>

\* C32: a frame without a hand clears the stability window and the keyboard
\* hold of the running application: a pass of the loop hands a stable
\* gesture to the handler only when a full window of frames with a hand
\* has been shown since the last frame without a hand, and a frame is
\* classified KEYBOARD only when all five fingers have been shown extended
\* without a gap for the hold time.
C32_NoHandFrameClearsWindow ==
    /\ (app_call.op = "run" /\ app_call.handled # None)
          => app_obs.streak = StabilityFrames
    /\ (/\ app_obs.streak > 0
        /\ gr_call.op = "recognize"
        /\ gr_call.candidate # None
        /\ gr_call.candidate[1].gesture_type = "KEYBOARD")
          => /\ app_obs.hold_start # None
             /\ gr_call.time - app_obs.hold_start[1] >= KeyboardHoldMs

\* _handle_gesture has been called with a click gesture
ClickGestureCall ==
    /\ app_call.op = "_handle_gesture"
    /\ app_call.handled[1].gesture_type \in ClickTypes

\* the last click performed before the last call is still in its cooldown
\* at that call
InClickCooldown ==
    /\ app_obs.prev_click_time # None
    /\ app_call.time - app_obs.prev_click_time[1] <= CooldownClickMs

\* C33: at most one click per click cooldown: two clicks performed one
\* after the other are more than the cooldown apart; a click gesture
\* handed to the handler within the cooldown of the last click dispatches
\* nothing; and a click gesture handed to it after the cooldown, counted
\* from the last click performed and not from a gesture refused since, is
\* dispatched.
C33_OneClickPerCooldown ==
    /\ (app_obs.click_time # None /\ app_obs.prev_click_time # None
           /\ app_obs.click_time # app_obs.prev_click_time)
          => app_obs.click_time[1] - app_obs.prev_click_time[1]
                 > CooldownClickMs
    /\ (ClickGestureCall /\ InClickCooldown)
          => /\ app_call.calls = <<>>
             /\ app_obs.click_time = app_obs.prev_click_time
    /\ (ClickGestureCall /\ ~InClickCooldown)
          => app_call.calls = <<ClickCall(app_call.handled[1].gesture_type)>>

\* a click gesture handed to the handler right at the end of the cooldown of
\* the last click has been refused, and the next one, less than a cooldown
\* after the refused one, has been dispatched
C33_Witness ==
    /\ ClickGestureCall
    /\ app_call.calls = <<"right_click">>
    /\ app_call.raised = ""
    /\ app_obs.prev_click_time = Some(StartTime)
    /\ app_obs.click_time = Some(StartTime + CooldownClickMs + 100)

\* C34: under any sequence of start_drag, stop_drag and toggle_drag calls on
\* a cursor controller, its button-down and button-up events alternate,
\* starting with a button-down; is_dragging is true exactly when its last
\* event was a button-down; and start_drag while dragging and stop_drag
\* while not dragging emit no event.
C34_DragEventsAlternate ==
    /\ app_obs.alternates
    /\ cursor.is_dragging <=> app_obs.last_event = "mouseDown"
    /\ (app_call.op = "start_drag" /\ app_call.pre_dragging)
          => app_call.calls = <<>> /\ cursor.is_dragging
    /\ (app_call.op = "stop_drag" /\ ~app_call.pre_dragging)
          => app_call.calls = <<>> /\ ~cursor.is_dragging

\* start_drag has been called on a controller that was dragging after a
\* button-down
C34_Witness ==
    /\ app_call.op = "start_drag"
    /\ app_call.pre_dragging
    /\ app_call.raised = ""
    /\ app_obs.last_event = "mouseDown"

\* filter has been called on an adaptive smoother at the time of its call
\* before, so that the time delta of the call is zero; a time delta below
\* zero takes a clock that goes back
ZeroDeltaCall ==
    /\ FilterCall
    /\ sm_call.pre.smoother_type = "one_euro"
    /\ sm_call.pre.x_smoother.prev_time = Some(sm_call.time)

\* C35 as stated: a call of the adaptive filter with a time delta that is
\* not positive takes 1 / freq for it, and is filtered and recorded as any
\* other sample.
C35_NonPositiveDeltaFallsBack ==
    ZeroDeltaCall =>
        \A axis \in Axes :
            \E f \in {IF axis = 1 THEN sm_call.pre.x_smoother
                       ELSE sm_call.pre.y_smoother} :
                \E r \in {OneEuroFilterFilterFallback(
                              f, sm_call.point[1][axis], sm_call.time)} :
                    /\ sm_call.ret[1][axis] = r.ret
                    /\ r.filter = IF axis = 1 THEN smoother.x_smoother
                                  ELSE smoother.y_smoother

\* C35: a call of the adaptive filter with a time delta that is not positive
\* returns its input unsmoothed and records nothing: the filter memory, the
\* previous value and the previous timestamp are left as they were.
C35_NonPositiveDeltaUnsmoothed ==
    ZeroDeltaCall => sm_call.ret = sm_call.point /\ smoother = sm_call.pre

\* a point away from the last output on both axes has been filtered with a
\* zero time delta
C35_Witness ==
    /\ ZeroDeltaCall
    /\ sm_call.pre.x_smoother.prev_value # Some(sm_call.point[1][1])
    /\ sm_call.pre.y_smoother.prev_value # Some(sm_call.point[1][2])
    /\ sm_call.pre.x_smoother.x_filter.prev_output # None

\* C36: reset() leaves the recognizer in the state its constructor leaves:
\* the window empty, no stable gesture, both cooldown timers at zero and no
\* keyboard hold timer; and the frame processed right after reset() returns
\* what a new recognizer returns for it at that time, and leaves the state
\* it leaves on a new recognizer, so that the frames after it do too.
C36_ResetRestoresConstructedState ==
    /\ [](gr_call.op = "reset" => RecognizerState = NewGestureRecognizer)
    /\ [][(/\ gr_call.op = "reset"
           /\ gr_call'.op = "process_landmarks"
           /\ gr_call'.landmarks # None)
            => \E fresh \in {ProcessLandmarksOn(NewGestureRecognizer,
                                                gr_call'.landmarks[1],
                                                gr_call'.time)} :
                   /\ gr_call'.ret = fresh.ret
                   /\ RecognizerState' = fresh.state]_vars

\* a recognizer with a full window, a stable gesture, and a click cooldown
\* under way has been reset
C36_Witness ==
    /\ gr_call.op = "reset"
    /\ gr_call.pre_history_len = StabilityFrames
    /\ gr_call.pre_last_click_time > 0
    /\ now - gr_call.pre_last_click_time < CooldownClickMs

\* C37: in every state of the calibrator, is_complete() is true exactly when
\* every point is captured, get_current_target() is None and get_progress()
\* is 1; capture_point on a complete calibrator returns False; and
\* capture_point after cancel() does not resume the capture.
C37_CompleteIsConsistent ==
    /\ IsComplete(calibrator)
          <=> /\ \A k \in 1..Len(calibrator.points) :
                     calibrator.points[k].is_captured
              /\ GetCurrentTarget(calibrator) = None
              /\ GetProgress(calibrator)[1] = GetProgress(calibrator)[2]
    /\ (cal_call.op = "capture_point"
           /\ cal_call.pre_state \in {"COMPLETE", "CANCELLED"})
          => cal_call.ret = Some(FALSE)

\* C38: a load_calibration call that returns False leaves the points, the
\* current target index and the state of the calibrator as they were before
\* the call, whatever the record it read.
C38_FailedLoadChangesNothing ==
    (cal_call.op = "load_calibration" /\ cal_call.ret = Some(FALSE))
        => ~cal_obs.changed

(* ---------------------------------------------------------------------- *)
(* The configuration.                                                     *)
(* ---------------------------------------------------------------------- *)

\* C39: Config instances are isolated from each other and from the
\* defaults: Config.DEFAULT_CONFIG keeps the values of its class statement
\* whatever is constructed, loaded or set, and a call on one instance
\* leaves what get() returns on every other instance.
C39_ConfigsIsolated ==
    /\ Resolve(DEFAULT_CONFIG, config_heap)
          = Resolve(DEFAULT_CONFIG, DefaultSections)
    /\ \A i \in 1..Len(cfg_call.pre) :
           i # cfg_call.instance
               => Resolve(configs[i], config_heap) = cfg_call.pre[i]

====
